---- MODULE Spec2Model ----
(***************************************************************************)
(* A model of the positional data engine of typhonjs-fvtt-svelte:          *)
(*   Position           src/src/application/position/Position.js           *)
(*   AnimationManager   src/unnamed/part_001 (second version, l. 128-320)  *)
(*   UpdateElementManager   not part of src/; modelled from section 4.2 of *)
(*                      the specification                                  *)
(*                                                                         *)
(* JavaScript values are records [k, v]: k is the kind ("number", "NaN",   *)
(* "null", "auto", "undefined") and v, for a number, counts HALVES, so     *)
(* that Math.round is not the identity (v = 3 is 1.5, v = 4 is 2).         *)
(***************************************************************************)
EXTENDS Integers, Sequences, FiniteSets, TLC

\* ------------------------------------------------------------------------
\* Bounds of the model
\* ------------------------------------------------------------------------

\* Frame timestamps run 0..MaxTime.
MaxTime == 2

\* Number of set() calls that reach UpdateElementManager.add for one element
\* between two frame ticks.
MaxSetCalls == 2

\* Number of animation tasks created over a behaviour.
MaxTasks == 2

\* The Position instances; the parent of each has its own target element,
\* so a store's name also names its element.
Stores == {"s1", "s2"}

\* The modelled keys of PositionData: one or two of each kind that set()
\* treats alike (maxWidth .. minHeight, rotateX / rotateY, translateX ..
\* translateZ and transformOrigin follow the pattern of a modelled key).
Fields == {"left", "top", "width", "height", "rotateZ", "scale", "zIndex"}

\* ------------------------------------------------------------------------
\* JavaScript values
\* ------------------------------------------------------------------------

Null == [k |-> "null", v |-> 0]
Auto == [k |-> "auto", v |-> 0]
Undef == [k |-> "undefined", v |-> 0]
NaN == [k |-> "NaN", v |-> 0]
Num(h) == [k |-> "number", v |-> h]

\* The integer n as a JavaScript number.
I(n) == Num(2 * n)

\* typeof x === 'number'
IsNumberType(x) == x.k \in {"number", "NaN"}

\* Number.isFinite(x)
IsFinite(x) == x.k = "number"

\* Number.isInteger(x), for the canonical-value claims
IsInteger(x) == x.k = "number" /\ x.v % 2 = 0

\* a !== b
StrictNe(a, b) == a.k = "NaN" \/ b.k = "NaN" \/ a # b

\* Math.round(x): to the nearest integer, a tie towards +Infinity.
MathRound(x) == IF x.k = "number" THEN Num(((x.v + 1) \div 2) * 2) ELSE x

\* Math.max(0, Math.min(x, 1000))
ClampScale(x) ==
    IF x.k # "number" THEN x
    ELSE IF x.v < 0 THEN Num(0)
    ELSE IF x.v > 2 * 1000 THEN Num(2 * 1000)
    ELSE x

\* A position argument with no key: every key reads undefined.
NoPos == [f \in Fields |-> Undef]

\* PositionData as constructed: every key null.
NullData == [f \in Fields |-> Null]

\* ------------------------------------------------------------------------
\* PositionChangeSet (used by Position.js; the class itself is not in src/)
\* ------------------------------------------------------------------------

AllBits == {"left", "top", "width", "height", "zIndex", "transform"}

\* The change-set bit a key of PositionData flags.
BitOf(f) == IF f \in {"rotateZ", "scale"} THEN "transform" ELSE f

\* changeSet.hasChange()
hasChange(cs) == cs # {}

\* ------------------------------------------------------------------------
\* State
\* ------------------------------------------------------------------------

VARIABLES
    data,           \* [Stores -> PositionData]      Position.#data
    changeSet,      \* [Stores -> SUBSET AllBits]    Position.#positionChangeSet
    styleCached,    \* [Stores -> BOOLEAN]           Position.#styleCache.hasData(el)
    validators,     \* [Stores -> Seq(validator)]    Position.#validators
    connected,      \* [Stores -> BOOLEAN]           parent.elementTarget.isConnected
    elStyle,        \* [Stores -> inline styles]     parent.elementTarget.style
    elementUpdated, \* [Stores -> promise]           Position.#updateElementPromise
    animKeys,       \* [Stores -> SUBSET Fields]     Position.#currentAnimationKeys
    uemList,        \* Seq(Stores)   UpdateElementManager: elements registered for the next frame
    setCalls,       \* [Stores -> 0..MaxSetCalls]    set() calls that reached the element since the last frame
    tasks,          \* Seq(animation data)           every animationData object created so far
    newList,        \* Seq(task index)               s_NEW_LIST
    activeList,     \* Seq(task index)               s_ACTIVE_LIST
    animPromise,    \* s_PROMISE and where its animate() stands: "none" (unset),
                    \* "awaitFrame" (suspended at nextAnimationFrame) or "rejected"
    dataSaved,      \* [Stores -> [Names -> snapshot]]   Position.#dataSaved
    defaultData,    \* [Stores -> snapshot]         Position.#defaultData
    positionable,   \* [Stores -> BOOLEAN]          parent.options.positionable, a boolean
    now,            \* the timestamp of the last frame tick
    ev              \* the last operation and what it did (history)

\* The collaborators of the position stores
VARIABLES
    filters,        \* Seq(filter data)     AdapterFilters.#filtersAdapter.filters
    drag,           \* the closure of draggable(node, { positionable, active, storeDragging })
    wrapped,        \* [Wrappers -> value]  TJSDocument.#document, TJSDocumentCollection.#collection
    subscriptions   \* [Wrappers -> Seq(handler)]   #subscriptions of the wrappers

\* The readable stores derived from a position store
VARIABLES
    derived,        \* [Stores -> the subscriber counts of stores.dimension and
                    \*  stores.transform, and #options.calculateTransform]
    transforms      \* [Stores -> [rotateZ, scale]]   the values of Position.#transforms

\* The context menu
VARIABLES
    menu            \* TJSMenu.#contextMenu, the menus created so far and the
                    \* createContext() calls suspended at their await

\* The older Position (application/internal/position)
VARIABLES
    older             \* one store of the older Position: its left, its flag
                    \* #updateElementInvoked, #elementUpdatePromises, the
                    \* frame callbacks requested and its animateTo() call

vars == <<data, changeSet, styleCached, validators, connected, elStyle, elementUpdated,
          animKeys, uemList, setCalls, tasks, newList, activeList, animPromise,
          dataSaved, defaultData, positionable, now, ev,
          filters, drag, wrapped, subscriptions, derived, transforms, menu, older>>

storeVars == <<data, changeSet, styleCached, validators, connected, elStyle, elementUpdated,
               animKeys, uemList, setCalls, tasks, newList, activeList, animPromise,
               dataSaved, defaultData, positionable, now, transforms>>
lateVars == <<derived, menu, older>>
extVars == <<filters, drag, wrapped, subscriptions, lateVars>>

posVars == <<data, changeSet, styleCached, elStyle, elementUpdated, uemList, setCalls,
             transforms>>
animVars == <<animKeys, tasks, newList, activeList, animPromise>>
saveVars == <<dataSaved, defaultData, positionable>>

\* ------------------------------------------------------------------------
\* Inline styles of the target element
\* ------------------------------------------------------------------------

\* The empty string of an unset inline style.
Empty == [k |-> "empty", v |-> 0]

\* A fresh element: no inline style. This version of Position never writes
\* style.left / style.top (#updateElementNew composes them into transform),
\* so both stay ''.
NoStyle == [left |-> Empty, top |-> Empty, width |-> Empty, height |-> Empty,
            zIndex |-> Empty, transform |-> <<>>]

\* Promises of UpdateElementManager.add
NoPromise == [st |-> "none", t |-> 0]
Pending == [st |-> "pending", t |-> 0]
Resolved(t) == [st |-> "resolved", t |-> t]

\* The history record of an operation: what was called (op, s, p), and what
\* the call did. vetoed: a validator returned null; notified: the stores
\* whose subscribers were invoked; bits: the change-set bits the call set;
\* repeat: the call repeats the operation before it (same store, same
\* argument); cbs: the DOM-sync callbacks a frame invoked, in order; calls:
\* the set() calls per element since the frame before; ids: the tasks the
\* operation created or cancelled; ret: how the call ended ("returns", or
\* "undefined" when it returns undefined, "false" / "true" for reset(),
\* "throws", "rejects" for a rejected promise); name: the snapshot name of
\* save / restore / getSave / remove; args: the options of the call;
\* validated: the validators the call invoked, in order; published: the
\* derived stores the operation called set() on, as [s, to] records.
Event(op, s, p) ==
    [op |-> op, s |-> s, p |-> p, vetoed |-> FALSE, notified |-> {}, bits |-> {},
     repeat |-> FALSE, cbs |-> <<>>, calls |-> [x \in Stores |-> 0], ids |-> <<>>,
     ret |-> "returns", name |-> "-", args |-> {}, validated |-> <<>>,
     published |-> {}]

\* ------------------------------------------------------------------------
\* Validators (Position.#validators, run by #updatePosition)
\* ------------------------------------------------------------------------

\* The validator functions of the model. A validator maps the proposed
\* position to a position, or to null (a veto).
ValidatorKinds == {"clampLeft", "vetoNegLeft", "veto"}

\* entry.validator(s_VALIDATION_DATA): [ok |-> FALSE] stands for null.
ApplyValidator(kind, pos) ==
    CASE kind = "veto" -> [ok |-> FALSE, pos |-> pos]
      [] kind = "vetoNegLeft" ->
            [ok |-> ~(IsFinite(pos.left) /\ pos.left.v < 0), pos |-> pos]
      [] kind = "clampLeft" ->
            [ok |-> TRUE,
             pos |-> IF IsFinite(pos.left) /\ pos.left.v < 0
                     THEN [pos EXCEPT !.left = Num(0)] ELSE pos]

\* The pipeline with a null result ignored: the position of the last
\* validator that returned one is carried on.
RECURSIVE RunValidators_skipNull(_, _)
RunValidators_skipNull(vs, pos) ==
    IF vs = <<>> THEN [ok |-> TRUE, pos |-> pos]
    ELSE LET r == ApplyValidator(Head(vs), pos)
         IN  RunValidators_skipNull(Tail(vs), IF r.ok THEN r.pos ELSE pos)

\* A pipeline that hands the proposed position to every validator and
\* returns what the last one makes of it.
RECURSIVE RunValidators_sameInput(_, _)
RunValidators_sameInput(vs, pos) ==
    IF vs = <<>> THEN [ok |-> TRUE, pos |-> pos]
    ELSE LET r == ApplyValidator(Head(vs), pos)
         IN  IF r.ok /\ Tail(vs) # <<>> THEN RunValidators_sameInput(Tail(vs), pos) ELSE r

\* The validators the loop of #updatePosition invokes, in order: it leaves
\* at the first null.
RECURSIVE ValidatorCalls(_, _)
ValidatorCalls(vs, pos) ==
    IF vs = <<>> THEN <<>>
    ELSE LET r == ApplyValidator(Head(vs), pos)
         IN  <<Head(vs)>> \o (IF r.ok THEN ValidatorCalls(Tail(vs), r.pos) ELSE <<>>)

\* for (const entry of validators) { ...; if (currentPosition === null) { return null; } }
RECURSIVE RunValidators(_, _)
RunValidators(vs, pos) ==
    IF vs = <<>> THEN [ok |-> TRUE, pos |-> pos]
    ELSE LET r == ApplyValidator(Head(vs), pos)
         IN  IF r.ok THEN RunValidators(Tail(vs), r.pos) ELSE r

\* ------------------------------------------------------------------------
\* Position.#updatePosition
\* ------------------------------------------------------------------------

\* el.offsetWidth / el.offsetHeight: the measured box of the element.
OffsetWidth == I(4)
OffsetHeight == I(3)

\* The width / height branch of #updatePosition: the value left in
\* currentPosition for the axis.
UpdateAxis(cur, arg, style, offset) ==
    IF style = Empty \/ arg # Undef
    THEN IF arg = Auto \/ (cur = Auto /\ arg # Null)
         THEN Auto
         ELSE LET newSize == IF IsFinite(arg) THEN arg ELSE cur
              IN  IF IsFinite(newSize) THEN MathRound(newSize) ELSE offset
    ELSE cur

\* The left / top branch of #updatePosition; no initial helper is installed,
\* so an unset inline style places the element at 0.
UpdateOffset(cur, arg, style) ==
    IF style = Empty \/ IsFinite(arg)
    THEN IF IsFinite(arg) THEN arg ELSE I(0)
    ELSE cur

\* currentPosition of #updatePosition before the validators run, for the
\* canonical data cur and the inline styles st of the target element.
ProposedPositionOn(cur, st, p) ==
        [left |-> UpdateOffset(cur.left, p.left, st.left),
         top |-> UpdateOffset(cur.top, p.top, st.top),
         width |-> UpdateAxis(cur.width, p.width, st.width, OffsetWidth),
         height |-> UpdateAxis(cur.height, p.height, st.height, OffsetHeight),
         rotateZ |-> IF IsNumberType(p.rotateZ) \/ p.rotateZ = Null
                     THEN p.rotateZ ELSE cur.rotateZ,
         scale |-> IF IsNumberType(p.scale) THEN ClampScale(p.scale)
                   ELSE IF p.scale = Null THEN Null ELSE cur.scale,
         zIndex |-> IF IsNumberType(p.zIndex) THEN MathRound(p.zIndex)
                    ELSE IF p.zIndex = Null THEN Null ELSE cur.zIndex]

\* currentPosition for the store s and its current target element.
ProposedPosition(s, p) == ProposedPositionOn(data[s], elStyle[s], p)

\* #updatePosition(position, parent, el) on an element with the inline
\* styles st: [ok |-> FALSE] stands for null.
updatePositionOn(s, st, p) ==
    RunValidators(validators[s], ProposedPositionOn(data[s], st, p))

\* #updatePosition(position, parent, el): [ok |-> FALSE] stands for null.
updatePosition(s, p) == updatePositionOn(s, elStyle[s], p)

\* Some validator of the pipeline returns null for this call.
ValidatorReturnsNull(s, st, p) ==
    LET RECURSIVE Walk(_, _)
        Walk(vs, pos) ==
            IF vs = <<>> THEN FALSE
            ELSE LET r == ApplyValidator(Head(vs), pos)
                 IN  ~r.ok \/ Walk(Tail(vs), r.pos)
    IN  Walk(validators[s], ProposedPositionOn(data[s], st, p))

\* ------------------------------------------------------------------------
\* Position.set
\* ------------------------------------------------------------------------

\* The guard of the block of set() that handles a key.
SetAccepts(f, x) ==
    CASE f \in {"left", "top", "zIndex"} -> IsNumberType(x)
      [] f \in {"rotateZ", "scale"} -> IsNumberType(x) \/ x = Null
      [] f \in {"width", "height"} -> IsNumberType(x) \/ x = Auto \/ x = Null

\* The value the block stores: rounded, clamped or passed through.
SetNormal(f, x) ==
    CASE f \in {"left", "top", "zIndex"} -> MathRound(x)
      [] f = "rotateZ" -> x
      [] f = "scale" -> IF IsNumberType(x) THEN ClampScale(x) ELSE Null
      [] f \in {"width", "height"} -> IF IsNumberType(x) THEN MathRound(x) ELSE x

\* The keys whose canonical value a set() of position pos changes.
SetChanged(d, pos) ==
    {f \in Fields : SetAccepts(f, pos[f]) /\ StrictNe(d[f], SetNormal(f, pos[f]))}

\* The canonical data after the per-key blocks of set() (l. 1006-1144).
SetData(d, pos) ==
    [f \in Fields |-> IF f \in SetChanged(d, pos) THEN SetNormal(f, pos[f]) ELSE d[f]]

\* Per-key blocks that flag every bit, changed or not.
SetBits_all(d, pos) == AllBits

\* The change-set bits the per-key blocks flag.
SetBits(d, pos) == {BitOf(f) : f \in SetChanged(d, pos)}

\* #updateSubscribers(data, changeSet): the subscribers are invoked, and the
\* change set cleared, only when some bit is set. Every store of the model
\* has a subscriber.
SubscribersNotified(cs) == hasChange(cs)

\* `if (changeSet.width || changeSet.height) { ...;
\*  this.#storeDimension.set(this.#dimensionData); }` of #updateSubscribers,
\* past its hasChange() guard.
DimensionPublished(cs) == hasChange(cs) /\ cs \cap {"width", "height"} # {}

\* An #updateElementNew that updates the transform data at every update.
TransformPublished_always(dv) == TRUE

\* `if (this.#options.calculateTransform || this.#options.transformSubscribed)
\*  { this.#updateTransform(el, data); }` of #updateElementNew; the start /
\* stop notifier of the transform store keeps transformSubscribed true while
\* the store has a subscriber.
TransformPublished(dv) == dv.calculateTransform \/ dv.transform > 0

\* The derived stores an #updateSubscribers of the store s with the change
\* set cs calls set() on.
PublishedInline(s, cs) ==
    IF DimensionPublished(cs) THEN {[s |-> s, to |-> "dimension"]} ELSE {}

\* An #updateSubscribers that leaves the change set as it found it.
ChangeSetAfterNotify_keep(cs) == cs

\* The change set after #updateSubscribers: `changeSet.set(false)`.
ChangeSetAfterNotify(cs) == {}

\* The registration list of UpdateElementManager after add(el, callback):
\* one entry per element, whatever the number of calls.
UemAdd(list, s) ==
    IF \E i \in 1..Len(list) : list[i] = s THEN list ELSE Append(list, s)

\* A set() that never registers the callback of its element.
SetRegisters_never(el) == FALSE

\* The block of set() that follows the per-key blocks, for a store with a
\* connected element: `if (el) { ...UpdateElementManager.add(el, ...) }`.
SetRegisters(el) == el

\* A set() that notifies inside the call with or without element.
SetNotifiesInline_always(el) == TRUE

\* The `else` of that block: subscribers are notified inside the call.
SetNotifiesInline(el) == ~el

\* An absent snapshot (no default data yet, no snapshot of that name): it
\* reads undefined, as does each of its keys.
NoSnapshot == [f \in Fields |-> Undef]

\* `parent !== void 0 && typeof parent?.options?.positionable === 'boolean'
\*  && !parent?.options?.positionable`: the early out of set() and animateTo()
NotPositionable_never(opt) == FALSE

NotPositionable(opt) == ~opt

\* A set() that takes the default data anew at every call with an element.
DefaultAfterSet_everySet(def, el, d) == IF el THEN d ELSE def

\* `if (typeof this.#defaultData !== 'object') { this.#defaultData =
\*  Object.assign({}, data); }` of the `if (el)` block of set()
DefaultAfterSet(def, el, d) == IF el /\ def = NoSnapshot THEN d ELSE def

\* The keys of the position that Position.#transforms holds as well
TransformKeys == {"rotateZ", "scale"}

\* The values of the transforms helper that mirror the canonical data d
TransformsOf(d) == [f \in TransformKeys |-> d[f]]

\* `data.rotateZ = transforms.rotateZ = position.rotateZ;` and the like: a
\* key block of set() assigns the helper together with the canonical value.
TransformsAfterSet(tr, d, pos) ==
    [f \in TransformKeys |-> IF f \in SetChanged(d, pos) THEN SetNormal(f, pos[f]) ELSE tr[f]]

\* this.#transforms.reset(data): every transform key takes the value of
\* data when it is finite, and is removed (reads null) otherwise.
TransformsReset(d) == [f \in TransformKeys |-> IF IsFinite(d[f]) THEN d[f] ELSE Null]

\* The body of set(position) for a call recorded as the event e, against a
\* parent whose target element is connected or not (el) and carries the
\* inline styles st, with the style cache holding the element or not
\* (cached), the default data def and the transforms helper holding tr.
SetCore(s, p, e, el, cached, st, def, tr) ==
    LET cs0 == IF el /\ ~cached THEN AllBits ELSE changeSet[s]
        r == IF el THEN updatePositionOn(s, st, p) ELSE [ok |-> TRUE, pos |-> p]
        vetoed == el /\ ValidatorReturnsNull(s, st, p)
        bits0 == IF el /\ ~cached THEN AllBits ELSE {}
        called == IF el THEN ValidatorCalls(validators[s], ProposedPositionOn(data[s], st, p))
                  ELSE <<>>
    IN  IF NotPositionable(positionable[s])
        THEN \* An early out to prevent `set` from taking effect.
             /\ UNCHANGED <<data, changeSet, elementUpdated, uemList, setCalls>>
             /\ transforms' = [transforms EXCEPT ![s] = tr]
             /\ styleCached' = [styleCached EXCEPT ![s] = cached]
             /\ defaultData' = [defaultData EXCEPT ![s] = def]
             /\ ev' = e
        ELSE /\ setCalls[s] < MaxSetCalls
             /\ styleCached' = [styleCached EXCEPT ![s] = cached \/ el]
             /\ IF ~r.ok
                THEN \* Check if a validator cancelled the update.
                     /\ changeSet' = [changeSet EXCEPT ![s] = cs0]
                     /\ UNCHANGED <<data, elementUpdated, uemList, setCalls>>
                     /\ transforms' = [transforms EXCEPT ![s] = tr]
                     /\ defaultData' = [defaultData EXCEPT ![s] = def]
                     /\ ev' = [e EXCEPT !.vetoed = vetoed, !.bits = bits0,
                                         !.validated = called]
                ELSE LET d1 == SetData(data[s], r.pos)
                         cs1 == cs0 \cup SetBits(data[s], r.pos)
                         inline == SetNotifiesInline(el) /\ SubscribersNotified(cs1)
                     IN  /\ data' = [data EXCEPT ![s] = d1]
                         /\ transforms' = [transforms EXCEPT
                                             ![s] = TransformsAfterSet(tr, data[s], r.pos)]
                         /\ changeSet' = [changeSet EXCEPT
                                            ![s] = IF inline THEN ChangeSetAfterNotify(cs1) ELSE cs1]
                         /\ defaultData' = [defaultData EXCEPT
                                              ![s] = DefaultAfterSet(def, el, d1)]
                         /\ IF SetRegisters(el)
                            THEN /\ uemList' = UemAdd(uemList, s)
                                 /\ elementUpdated' = [elementUpdated EXCEPT ![s] = Pending]
                            ELSE UNCHANGED <<uemList, elementUpdated>>
                         /\ setCalls' = [setCalls EXCEPT ![s] = IF el THEN @ + 1 ELSE @]
                         /\ ev' = [e EXCEPT
                                      !.vetoed = vetoed,
                                      !.notified = IF inline THEN {s} ELSE {},
                                      !.bits = bits0 \cup SetBits(data[s], r.pos),
                                      !.validated = called,
                                      !.published = IF SetNotifiesInline(el)
                                                    THEN PublishedInline(s, cs1) ELSE {}]

\* The body of set(position) against the current parent: set() itself, or
\* the set() that restore() and reset() make.
SetBody(s, p, e) ==
    SetCore(s, p, e, connected[s], styleCached[s], elStyle[s], defaultData[s],
            transforms[s])

\* Position.set(position)
Set(s, p) ==
    /\ UNCHANGED extVars
    /\ SetBody(s, p, [Event("set", s, p) EXCEPT
                         !.repeat = (ev.op = "set" /\ ev.s = s /\ ev.p = p)])
    /\ UNCHANGED <<validators, connected, elStyle, now, dataSaved, positionable>>
    /\ UNCHANGED animVars

\* ------------------------------------------------------------------------
\* Position.#updateElementNew: the DOM-sync callback
\* ------------------------------------------------------------------------

\* `${n}px` or `${n}` for a number; 'auto' as is; null clears the style. The
\* text of NaN is no CSS value, and the browser drops such an assignment.
StyleWrite(old, x) ==
    CASE x.k = "number" -> x
      [] x.k = "NaN" -> old
      [] x = Auto -> Auto
      [] OTHER -> Empty

\* this.#transforms.getCSSOrtho(data): the transform composed of left / top
\* and of the transform keys.
getCSSOrtho(d) == <<d.left, d.top, d.rotateZ, d.scale>>

\* An #updateElementNew that writes every style whatever the change set.
StyleAfterUpdate_all(st, d, cs) ==
    [left |-> st.left,
     top |-> st.top,
     zIndex |-> StyleWrite(st.zIndex, d.zIndex),
     width |-> StyleWrite(st.width, d.width),
     height |-> StyleWrite(st.height, d.height),
     transform |-> getCSSOrtho(d)]

\* The inline styles after #updateElementNew(el) of a connected element.
StyleAfterUpdate(st, d, cs) ==
    [left |-> st.left,
     top |-> st.top,
     zIndex |-> IF "zIndex" \in cs THEN StyleWrite(st.zIndex, d.zIndex) ELSE st.zIndex,
     width |-> IF "width" \in cs THEN StyleWrite(st.width, d.width) ELSE st.width,
     height |-> IF "height" \in cs THEN StyleWrite(st.height, d.height) ELSE st.height,
     transform |-> IF cs \cap {"left", "top", "transform"} # {}
                   THEN getCSSOrtho(d) ELSE st.transform]

\* The stores of a registration list
Range(list) == {list[i] : i \in 1..Len(list)}

\* The callbacks that do their work: `if (!el.isConnected) { return; }`
Synced(list) == {s \in Range(list) : connected[s]}

\* ------------------------------------------------------------------------
\* UpdateElementManager: the frame tick
\* ------------------------------------------------------------------------

\* On the frame every registered callback is invoked once, then every pending
\* promise is resolved with the frame's timestamp and the registrations are
\* cleared.
UemFrame(t) ==
    LET synced == Synced(uemList)
    IN  /\ elStyle' = [s \in Stores |->
              IF s \in synced THEN StyleAfterUpdate(elStyle[s], data[s], changeSet[s])
              ELSE elStyle[s]]
        /\ changeSet' = [s \in Stores |->
              IF s \in synced /\ SubscribersNotified(changeSet[s])
              THEN ChangeSetAfterNotify(changeSet[s]) ELSE changeSet[s]]
        /\ elementUpdated' = [s \in Stores |->
              IF elementUpdated[s] = Pending THEN Resolved(t) ELSE elementUpdated[s]]
        /\ uemList' = <<>>
        /\ setCalls' = [s \in Stores |-> 0]
        /\ ev' = [Event("frame", "-", NoPos) EXCEPT
                     !.notified = {s \in synced : SubscribersNotified(changeSet[s])},
                     !.cbs = uemList,
                     !.calls = setCalls,
                     !.published =
                        {[s |-> s, to |-> "transform"] :
                            s \in {x \in synced : TransformPublished(derived[x])}}
                        \cup UNION {PublishedInline(s, changeSet[s]) : s \in synced}]

\* ------------------------------------------------------------------------
\* Position.animateTo
\* ------------------------------------------------------------------------

\* The value `undefined` of a property the object does not have.
NoEl == "undefined"

\* The keys of the position argument
KeysOf(p) == {f \in Fields : p[f] # Undef}

\* `if (initial.rotateX === null) { initial.rotateX = 0; }` ... and the same
\* for destination: the neutral value of a transform key stands for null.
Neutral(f, x) ==
    IF x = Null /\ f = "rotateZ" THEN I(0)
    ELSE IF x = Null /\ f = "scale" THEN I(1)
    ELSE x

\* The keys given an initial value: data[key] is defined for every key of
\* PositionData, so what counts is position[key] !== data[key].
InitialKeys(s, p) == {f \in KeysOf(p) : StrictNe(p[f], data[s][f])}

\* The filter without the test of currentAnimationKeys.
AnimatedKeys_noKeyCheck(s, p) ==
    {f \in InitialKeys(s, p) : IsFinite(Neutral(f, data[s][f]))}

\* The filter without the test of Number.isFinite.
AnimatedKeys_noFiniteCheck(s, p) ==
    {f \in InitialKeys(s, p) : f \notin animKeys[s]}

\* `if (!Number.isFinite(initial[key]) || currentAnimationKeys.has(key))
\*  { delete initial[key]; }`: the keys that survive.
AnimatedKeys(s, p) ==
    {f \in InitialKeys(s, p) : IsFinite(Neutral(f, data[s][f])) /\ f \notin animKeys[s]}

\* animationData of animateTo (l. 731-742) with the promise's resolve. The
\* object has no `el` and no `finished` property: both read undefined.
\* initial keeps the keys that survive the filter, destination every key
\* that was given an initial value.
AnimationData(s, p, duration) ==
    [position |-> s,
     keys |-> AnimatedKeys(s, p),
     initial |-> [f \in Fields |-> IF f \in AnimatedKeys(s, p)
                                   THEN Neutral(f, data[s][f]) ELSE Undef],
     destination |-> [f \in Fields |-> IF f \in InitialKeys(s, p)
                                       THEN Neutral(f, p[f]) ELSE Undef],
     duration |-> duration,
     start |-> -1,
     current |-> 0,
     el |-> NoEl,
     finished |-> FALSE,
     resolved |-> FALSE]

\* AnimationManager.add(data): `if (!s_PROMISE) { s_PROMISE = this.animate(); }`;
\* animate() runs to its first await.
AddStartsLoop(promise) == IF promise = "none" THEN "awaitFrame" ELSE promise

\* The animating keys as if every store shared one set of keys.
AddAnimationKeys_shared(ak, s, keys) == [t \in Stores |-> ak[t] \cup keys]

\* `const currentAnimationKeys = this.#currentAnimationKeys; ...
\*  currentAnimationKeys.add(key)`: the set is a field of the instance.
AddAnimationKeys(ak, s, keys) == [ak EXCEPT ![s] = @ \cup keys]

\* The body of animateTo(position, { duration }) for a call recorded as the
\* event e: animateTo() itself, or the animateTo() that restore() makes.
AnimateBody(s, p, duration, e) ==
    LET keys == AnimatedKeys(s, p)
    IN  IF NotPositionable(positionable[s]) \/ keys = {}
        THEN \* Early out if the application is not positionable, or
             \* nothing to animate, so return now.
             /\ UNCHANGED animVars
             /\ ev' = e
        ELSE /\ Len(tasks) < MaxTasks
             /\ animKeys' = AddAnimationKeys(animKeys, s, keys)
             /\ tasks' = Append(tasks, AnimationData(s, p, duration))
             /\ newList' = Append(newList, Len(tasks) + 1)
             /\ animPromise' = AddStartsLoop(animPromise)
             /\ UNCHANGED activeList
             /\ ev' = [e EXCEPT !.ids = <<Len(tasks) + 1>>]

\* Position.animateTo(position, { duration })
AnimateTo(s, p, duration) ==
    /\ UNCHANGED extVars
    /\ AnimateBody(s, p, duration, Event("animateTo", s, p))
    /\ UNCHANGED posVars
    /\ UNCHANGED saveVars
    /\ UNCHANGED <<validators, connected, now>>

\* ------------------------------------------------------------------------
\* AnimationManager.animate: the frame tick
\* ------------------------------------------------------------------------

\* The sequence reversed
RECURSIVE Reverse(_)
Reverse(q) == IF q = <<>> THEN <<>> ELSE Append(Reverse(Tail(q)), Head(q))

\* `for (let cntr = s_NEW_LIST.length; --cntr >= 0;) { ...; s_ACTIVE_LIST.push(data); }`
Promote(active, new) == active \o Reverse(new)

\* `data.el.isConnected` of the first task the loop over s_ACTIVE_LIST reads
\* (the last of the list): a TypeError when data.el is undefined.
ReadElThrows(active) == active # <<>> /\ tasks[active[Len(active)]].el = NoEl

\* The continuation of animate() at the frame of timestamp t. With both lists
\* empty the loop is not entered and s_PROMISE is cleared. Otherwise the new
\* tasks are promoted with start = t, and the loop over the active list reads
\* data.el.isConnected: no animationData has an `el`, the read throws, the
\* promise of animate() is rejected and s_PROMISE keeps that promise. Nothing
\* after the read (l. 186-265) runs.
AnimateFrame(t) ==
    IF animPromise # "awaitFrame"
    THEN UNCHANGED animVars
    ELSE IF activeList = <<>> /\ newList = <<>>
    THEN /\ animPromise' = "none"
         /\ UNCHANGED <<animKeys, tasks, newList, activeList>>
    ELSE LET active == Promote(activeList, newList)
         IN  /\ ReadElThrows(active)
             /\ tasks' = [i \in 1..Len(tasks) |->
                   IF \E j \in 1..Len(newList) : newList[j] = i
                   THEN [tasks[i] EXCEPT !.start = t, !.current = 0] ELSE tasks[i]]
             /\ activeList' = active
             /\ newList' = <<>>
             /\ animPromise' = "rejected"
             /\ UNCHANGED animKeys

\* The frame tick: requestAnimationFrame resumes animate() and the update
\* manager; the two touch disjoint state.
Frame ==
    /\ UNCHANGED extVars
    /\ now < MaxTime
    /\ now' = now + 1
    /\ AnimateFrame(now + 1)
    /\ UemFrame(now + 1)
    /\ UNCHANGED <<data, styleCached, validators, connected, transforms>>
    /\ UNCHANGED saveVars

\* ------------------------------------------------------------------------
\* AnimationManager.cancelAll
\* ------------------------------------------------------------------------

\* The tasks of both lists
Listed == Range(activeList) \cup Range(newList)

\* data.currentAnimationKeys.clear(); data.finished = true; data.resolve();
\* for every task of both lists, which are then emptied.
CancelAll ==
    /\ UNCHANGED extVars
    /\ animKeys' = [s \in Stores |->
          IF \E i \in Listed : tasks[i].position = s THEN {} ELSE animKeys[s]]
    /\ tasks' = [i \in 1..Len(tasks) |->
          IF i \in Listed THEN [tasks[i] EXCEPT !.finished = TRUE, !.resolved = TRUE]
          ELSE tasks[i]]
    /\ activeList' = <<>>
    /\ newList' = <<>>
    /\ ev' = [Event("cancelAll", "-", NoPos) EXCEPT !.ids = activeList \o newList]
    /\ UNCHANGED animPromise
    /\ UNCHANGED posVars
    /\ UNCHANGED saveVars
    /\ UNCHANGED <<validators, connected, now>>

\* ------------------------------------------------------------------------
\* The environment: the target element joins or leaves the document
\* ------------------------------------------------------------------------

Connect(s) ==
    /\ UNCHANGED extVars
    /\ ~connected[s]
    /\ connected' = [connected EXCEPT ![s] = TRUE]
    /\ ev' = Event("connect", s, NoPos)
    /\ UNCHANGED posVars
    /\ UNCHANGED animVars
    /\ UNCHANGED saveVars
    /\ UNCHANGED <<validators, now>>

Disconnect(s) ==
    /\ UNCHANGED extVars
    /\ connected[s]
    /\ connected' = [connected EXCEPT ![s] = FALSE]
    /\ ev' = Event("disconnect", s, NoPos)
    /\ UNCHANGED posVars
    /\ UNCHANGED animVars
    /\ UNCHANGED saveVars
    /\ UNCHANGED <<validators, now>>

\* ------------------------------------------------------------------------
\* Position.save, getSave, remove, restore and reset
\* ------------------------------------------------------------------------

\* A lookup that falls back on the snapshot of another name.
SavedGet_anyName(saved, name) ==
    IF \E n \in DOMAIN saved : saved[n] # NoSnapshot
    THEN saved[CHOOSE n \in DOMAIN saved : saved[n] # NoSnapshot]
    ELSE NoSnapshot

\* this.#dataSaved.get(name)
SavedGet(saved, name) == saved[name]

\* How a call that returns a snapshot ends: with the snapshot or undefined.
Returned(snapshot) == IF snapshot = NoSnapshot THEN "undefined" ELSE "returns"

\* Position.save({ name }): `this.#dataSaved.set(name, this.get(extra))`, a
\* copy of every key of #data.
Save(s, name) ==
    /\ UNCHANGED extVars
    /\ dataSaved' = [dataSaved EXCEPT ![s][name] = data[s]]
    /\ ev' = [Event("save", s, NoPos) EXCEPT !.name = name]
    /\ UNCHANGED posVars
    /\ UNCHANGED animVars
    /\ UNCHANGED <<defaultData, positionable, validators, connected, now>>

\* Position.getSave({ name })
GetSave(s, name) ==
    /\ UNCHANGED extVars
    /\ ev' = [Event("getSave", s, NoPos) EXCEPT
                 !.name = name, !.ret = Returned(SavedGet(dataSaved[s], name))]
    /\ UNCHANGED posVars
    /\ UNCHANGED animVars
    /\ UNCHANGED saveVars
    /\ UNCHANGED <<validators, connected, now>>

\* Position.remove({ name })
Remove(s, name) ==
    /\ UNCHANGED extVars
    /\ dataSaved' = [dataSaved EXCEPT ![s][name] = NoSnapshot]
    /\ ev' = [Event("remove", s, NoPos) EXCEPT
                 !.name = name, !.ret = Returned(SavedGet(dataSaved[s], name))]
    /\ UNCHANGED posVars
    /\ UNCHANGED animVars
    /\ UNCHANGED <<defaultData, positionable, validators, connected, now>>

\* `data = {}; for (const property of properties) { data[property] =
\*  dataSaved[property]; }`, or the snapshot itself without `properties`.
RestoreData(snapshot, properties) ==
    [f \in Fields |-> IF f \in properties THEN snapshot[f] ELSE Undef]

\* The object passed to set() after the per-key blocks of set() assigned the
\* normalised values to its keys (`position.left = Math.round(position.left)`).
PositionAfterSet(pos) ==
    [f \in Fields |-> IF SetAccepts(f, pos[f]) THEN SetNormal(f, pos[f]) ELSE pos[f]]

\* The snapshot map after restore(): the entry is deleted with `remove`; if
\* kept, it is the very object set() was given when restore() passes the
\* snapshot itself (no `properties`) to a set() that works on its argument
\* (no element: with one, #updatePosition returns a new object).
SavedAfterRestore(s, name, snapshot, args) ==
    IF "remove" \in args THEN [dataSaved[s] EXCEPT ![name] = NoSnapshot]
    ELSE IF /\ args \cap {"silent", "animateTo", "properties"} = {}
            /\ ~connected[s]
            /\ ~NotPositionable(positionable[s])
    THEN [dataSaved[s] EXCEPT ![name] = PositionAfterSet(snapshot)]
    ELSE dataSaved[s]

\* The default duration of restore()
RestoreDuration == 100

\* A restore() that looks at animateTo before silent.
RestoreMode_animateFirst(args) ==
    IF "animateTo" \in args THEN "animateTo"
    ELSE IF "silent" \in args THEN "silent" ELSE "set"

\* `if (silent) { ... } else if (animateTo) { ... } else { this.set(data); }`
RestoreMode(args) ==
    IF "silent" \in args THEN "silent"
    ELSE IF "animateTo" \in args THEN "animateTo" ELSE "set"

\* Position.restore({ name, remove, properties, silent, animateTo }): args
\* holds the options that are set; "properties" stands for
\* `properties: ['left']`.
Restore(s, name, args) ==
    LET snapshot == SavedGet(dataSaved[s], name)
        e == [Event("restore", s, NoPos) EXCEPT
                 !.name = name, !.args = args, !.ret = Returned(snapshot)]
        keys == IF "properties" \in args THEN {"left"} ELSE Fields
        d == RestoreData(snapshot, keys)
    IN  /\ IF snapshot = NoSnapshot
           THEN /\ ev' = e
                /\ UNCHANGED posVars
                /\ UNCHANGED animVars
                /\ UNCHANGED <<dataSaved, defaultData>>
           ELSE /\ dataSaved' = [dataSaved EXCEPT
                                   ![s] = SavedAfterRestore(s, name, snapshot, args)]
                /\ IF RestoreMode(args) = "silent"
                   THEN \* Update data directly with no store or inline style updates.
                        /\ data' = [data EXCEPT ![s] =
                              [f \in Fields |-> IF f \in keys THEN d[f] ELSE @[f]]]
                        /\ ev' = e
                        /\ UNCHANGED <<changeSet, styleCached, elementUpdated, uemList,
                                       setCalls, defaultData, transforms>>
                        /\ UNCHANGED animVars
                   ELSE IF RestoreMode(args) = "animateTo"
                   THEN \* Animate to saved data.
                        /\ AnimateBody(s, d, RestoreDuration, e)
                        /\ UNCHANGED <<data, changeSet, styleCached, elementUpdated,
                                       uemList, setCalls, defaultData, transforms>>
                   ELSE \* Default options is to set data for an immediate update.
                        /\ SetBody(s, d, e)
                        /\ UNCHANGED animVars
        /\ UNCHANGED <<elStyle, positionable, validators, connected, now>>
        /\ UNCHANGED extVars

\* A reset() that looks at the default data only.
ResetAllowed_ignoreAnimating(def, keys) == def # NoSnapshot

\* `if (typeof this.#defaultData !== 'object') { return false; }
\*  if (this.#currentAnimationKeys.size) { return false; }`
ResetAllowed(def, keys) == def # NoSnapshot /\ keys = {}

\* Position.reset({ keepZIndex, invokeSet }); minimized is what
\* parent.reactive.minimized reads. The event lists in args the options and
\* what the call did besides set(): "transforms.reset", "maximize".
Reset(s, keepZIndex, invokeSet, minimized) ==
    LET opts == (IF keepZIndex THEN {"keepZIndex"} ELSE {})
                  \cup (IF invokeSet THEN {"invokeSet"} ELSE {})
        def == defaultData[s]
        d == IF keepZIndex THEN [def EXCEPT !.zIndex = data[s].zIndex] ELSE def
        did == {"transforms.reset"} \cup (IF minimized THEN {"maximize"} ELSE {})
    IN  /\ IF ~ResetAllowed(def, animKeys[s])
           THEN /\ ev' = [Event("reset", s, NoPos) EXCEPT !.args = opts, !.ret = "false"]
                /\ UNCHANGED <<data, changeSet, styleCached, elementUpdated, uemList,
                               setCalls, defaultData, transforms>>
           ELSE IF invokeSet
           THEN \* Reset the transform data, then set(data).
                SetCore(s, d, [Event("reset", s, NoPos) EXCEPT
                                  !.args = opts \cup did, !.ret = "true"],
                        connected[s], styleCached[s], elStyle[s], defaultData[s],
                        TransformsReset(d))
           ELSE /\ ev' = [Event("reset", s, NoPos) EXCEPT
                             !.args = opts \cup did, !.ret = "true"]
                /\ transforms' = [transforms EXCEPT ![s] = TransformsReset(d)]
                /\ UNCHANGED <<data, changeSet, styleCached, elementUpdated, uemList,
                               setCalls, defaultData>>
        /\ UNCHANGED animVars
        /\ UNCHANGED <<elStyle, dataSaved, positionable, validators, connected, now>>
        /\ UNCHANGED extVars

\* The parent switches options.positionable.
SetPositionable(s, b) ==
    /\ UNCHANGED extVars
    /\ positionable[s] # b
    /\ positionable' = [positionable EXCEPT ![s] = b]
    /\ ev' = Event("positionable", s, NoPos)
    /\ UNCHANGED posVars
    /\ UNCHANGED animVars
    /\ UNCHANGED <<dataSaved, defaultData, validators, connected, now>>

\* `set parent(parent)`: the store takes a new parent, whose target element
\* (a fresh one, without inline styles) is connected or not. The default
\* data and the style cache are reset, then `this.set(this.#data)` runs
\* against the new parent. The parent is assigned between two updates of
\* the element: no callback of the store waits in the update manager.
SetParent(s, c) ==
    /\ UNCHANGED extVars
    /\ s \notin Range(uemList)
    /\ connected' = [connected EXCEPT ![s] = c]
    /\ elStyle' = [elStyle EXCEPT ![s] = NoStyle]
    /\ SetCore(s, data[s], Event("parent", s, data[s]), c, FALSE, NoStyle, NoSnapshot,
               transforms[s])
    /\ UNCHANGED animVars
    /\ UNCHANGED <<dataSaved, positionable, validators, now>>

\* ------------------------------------------------------------------------
\* Calls with malformed arguments
\* ------------------------------------------------------------------------

\* The methods that test their arguments, and the argument each test is
\* about: a position that is not an object, a duration that is not a
\* non-negative integer, an easing or interpolate that is not a function, a
\* name that is not a string.
CheckedArgs ==
    [set |-> {"position"},
     animateTo |-> {"position", "duration", "easing", "interpolate"},
     save |-> {"name"},
     restore |-> {"name"},
     getSave |-> {"name"},
     remove |-> {"name"}]

\* `async animateTo(...)`: the one method declared async.
IsAsync(op) == op = "animateTo"

\* What the caller sees of `throw new TypeError(...)`: the exception, or, from
\* an async method, a promise that is rejected with it.
ThrowOutcome(op) == IF IsAsync(op) THEN "rejects" ELSE "throws"

\* In animateTo() the test of the position comes first, then the early out
\* of a parent that is not positionable, then the other tests.
BadCallOutcome(s, op, arg) ==
    IF op = "animateTo" /\ arg # "position" /\ NotPositionable(positionable[s])
    THEN "returns"
    ELSE ThrowOutcome(op)

\* A call of method op whose argument arg is malformed: the first statements
\* of set, animateTo, save, restore, getSave and remove.
BadCall(s, op, arg) ==
    /\ UNCHANGED extVars
    /\ arg \in CheckedArgs[op]
    /\ ev' = [Event(op, s, NoPos) EXCEPT
                 !.args = {"malformed", arg}, !.ret = BadCallOutcome(s, op, arg)]
    /\ UNCHANGED posVars
    /\ UNCHANGED animVars
    /\ UNCHANGED saveVars
    /\ UNCHANGED <<validators, connected, now>>

\* ------------------------------------------------------------------------
\* AdapterFilters: the weighted filters of the reducer
\* ------------------------------------------------------------------------

MaxFilters == 3

\* The filter functions, the ids and the weights filters are added with. A
\* weight counts halves like every number: Num(0) is 0, Num(1) is 0.5,
\* Num(2) is 1 and Num(3) is 1.5.
FilterFns == {"f", "g"}
FilterIds == {"undefined", "x"}
FilterWeights == {Undef, Num(0), Num(1), Num(2), Num(3)}

\* `filter.weight !== void 0 && typeof filter.weight !== 'number' ||
\*  filter.weight < 0 || filter.weight > 1`: a TypeError
WeightRejected(w) ==
    \/ w # Undef /\ ~IsNumberType(w)
    \/ IsFinite(w) /\ (w.v < 0 \/ w.v > 2)

\* `weight: filter.weight || 1`: undefined, NaN and 0 are falsy.
StoredWeight(w) == IF IsFinite(w) /\ w.v # 0 THEN w ELSE I(1)

\* data = { id, filter, weight }; `given` remembers the weight of the call.
\* add(fn) with a bare function is FilterData(fn, "undefined", Undef).
FilterData(fn, id, w) == [id |-> id, filter |-> fn, weight |-> StoredWeight(w), given |-> w]

\* `filters.findIndex((value) => data.weight < value.weight)`, from 1; 0
\* stands for -1.
FindIndex(fs, w) ==
    LET hits == {i \in 1..Len(fs) : w.v < fs[i].weight.v}
    IN  IF hits = {} THEN 0 ELSE CHOOSE i \in hits : \A j \in hits : i <= j

\* `if (index >= 0) { filters.splice(index, 0, data); } else { filters.push(data); }`
FiltersAfterAdd(fs, d) ==
    LET i == FindIndex(fs, d.weight)
    IN  IF i > 0 THEN SubSeq(fs, 1, i - 1) \o <<d>> \o SubSeq(fs, i, Len(fs))
        ELSE Append(fs, d)

\* The entries a removal keeps, in their order
RECURSIVE Keep(_, _)
Keep(fs, gone) ==
    IF fs = <<>> THEN <<>>
    ELSE IF Head(fs) \in gone THEN Keep(Tail(fs), gone)
    ELSE <<Head(fs)>> \o Keep(Tail(fs), gone)

\* The callbacks of removeBy: they see { id, filter, weight }.
RemoveByCallbacks == {"weightIsOne", "hasId"}

CallbackRemoves(cb, d) ==
    IF cb = "weightIsOne" THEN d.weight = I(1) ELSE d.id # "undefined"

\* AdapterFilters.add({ id, filter: fn, weight: w })
FiltersAdd(fn, id, w) ==
    /\ Len(filters) < MaxFilters
    /\ IF WeightRejected(w)
       THEN /\ UNCHANGED filters
            /\ ev' = [Event("filters.add", "-", NoPos) EXCEPT !.name = fn, !.ret = "throws"]
       ELSE /\ filters' = FiltersAfterAdd(filters, FilterData(fn, id, w))
            /\ ev' = [Event("filters.add", "-", NoPos) EXCEPT
                         !.name = fn,
                         !.args = IF w = Undef THEN {"noWeight"} ELSE {}]
    /\ UNCHANGED storeVars
    /\ UNCHANGED lateVars
    /\ UNCHANGED <<drag, wrapped, subscriptions>>

\* AdapterFilters.remove(fn)
FiltersRemove(fn) ==
    /\ filters' = Keep(filters, {d \in Range(filters) : d.filter = fn})
    /\ ev' = [Event("filters.remove", "-", NoPos) EXCEPT !.name = fn]
    /\ UNCHANGED storeVars
    /\ UNCHANGED lateVars
    /\ UNCHANGED <<drag, wrapped, subscriptions>>

\* AdapterFilters.removeBy(callback)
FiltersRemoveBy(cb) ==
    /\ filters' = Keep(filters, {d \in Range(filters) : CallbackRemoves(cb, d)})
    /\ ev' = [Event("filters.removeBy", "-", NoPos) EXCEPT !.name = cb]
    /\ UNCHANGED storeVars
    /\ UNCHANGED lateVars
    /\ UNCHANGED <<drag, wrapped, subscriptions>>

\* AdapterFilters.removeById(id)
FiltersRemoveById(id) ==
    /\ filters' = Keep(filters, {d \in Range(filters) : d.id = id})
    /\ ev' = [Event("filters.removeById", "-", NoPos) EXCEPT !.name = id]
    /\ UNCHANGED storeVars
    /\ UNCHANGED lateVars
    /\ UNCHANGED <<drag, wrapped, subscriptions>>

\* AdapterFilters.clear()
FiltersClear ==
    /\ filters' = <<>>
    /\ ev' = Event("filters.clear", "-", NoPos)
    /\ UNCHANGED storeVars
    /\ UNCHANGED lateVars
    /\ UNCHANGED <<drag, wrapped, subscriptions>>

\* ------------------------------------------------------------------------
\* draggable: the pointer handlers of the drag action
\* ------------------------------------------------------------------------

MaxTicks == 2

\* Date.now() when the action is created, in ms, and the steps of the clock
\* between two events.
StartClock == 1000
ClockSteps == {16, 17}

\* clientX / clientY of the pointer events
Pointers == {[x |-> 0, y |-> 0], [x |-> 10, y |-> 5]}

\* `foundry.utils.duplicate(x)` is JSON.parse(JSON.stringify(x)): NaN comes
\* back as null, a missing property stays missing.
Duplicate(x) == IF x = NaN THEN Null ELSE x

\* a + n for a value a and the integer n: null counts 0, undefined and NaN
\* give NaN.
JsAdd(a, n) ==
    IF a = Null THEN I(n)
    ELSE IF IsFinite(a) THEN Num(a.v + 2 * n)
    ELSE NaN

\* `(now - moveTime) < (1000 / 60)` with the test left out
Throttled_never(clock, moveTime) == FALSE

\* `if ((now - moveTime) < (1000 / 60)) { return; }`
Throttled(clock, moveTime) == (clock - moveTime) * 60 < 1000

\* positionable.position when the action is created
StartPosition == [left |-> I(100), top |-> Null]

\* The closure after draggable(node, { positionable, active: true,
\* storeDragging }): the pointerdown listener is on the node (down); the
\* pointermove / pointerup listeners are not (tracking); position = null,
\* initialPosition = {}, moveTime = 0. dragging is the value of
\* storeDragging, app is positionable.position and clock is Date.now().
\* History: pressed (a pointer went down on the node and none went up
\* since), downApp and downAt (positionable.position and the pointer when
\* the last pointerdown was handled), last (the pointer of the last event),
\* accepted (Date.now() of the last setPosition call, -1 before the first).
InitDrag ==
    [down |-> TRUE, tracking |-> FALSE, dragging |-> FALSE,
     position |-> [left |-> Undef, top |-> Undef],
     initialPosition |-> [x |-> 0, y |-> 0],
     moveTime |-> 0, clock |-> StartClock, ticks |-> 0, app |-> StartPosition,
     pressed |-> FALSE, downApp |-> StartPosition, downAt |-> [x |-> 0, y |-> 0],
     last |-> [x |-> 0, y |-> 0], accepted |-> -1]

\* positionable.setPosition({ left, top }): a finite value is taken.
SetPosition(app, left, top) ==
    [left |-> IF IsFinite(left) THEN left ELSE app.left,
     top |-> IF IsFinite(top) THEN top ELSE app.top]

\* removeListeners(): storeDragging.set(false) and the three listeners leave
\* the node.
RemoveListeners(d) == [d EXCEPT !.dragging = FALSE, !.down = FALSE, !.tracking = FALSE]

\* A pointerdown event on the node, handled by onDragPointerDown when the
\* listener is on the node.
PointerDown(x, y) ==
    /\ drag' = IF drag.down
               THEN [drag EXCEPT !.dragging = TRUE,
                                 !.position = [left |-> Duplicate(drag.app.left),
                                               top |-> Duplicate(drag.app.top)],
                                 !.initialPosition = [x |-> x, y |-> y],
                                 !.tracking = TRUE,
                                 !.pressed = TRUE, !.downApp = drag.app,
                                 !.downAt = [x |-> x, y |-> y], !.last = [x |-> x, y |-> y]]
               ELSE [drag EXCEPT !.pressed = TRUE, !.last = [x |-> x, y |-> y]]
    /\ ev' = [Event("pointerdown", "-", NoPos) EXCEPT
                 !.ret = IF drag.down THEN "returns" ELSE "ignored"]
    /\ UNCHANGED storeVars
    /\ UNCHANGED lateVars
    /\ UNCHANGED <<filters, wrapped, subscriptions>>

\* A pointermove event on the node, handled by onDragPointerMove between
\* onDragPointerDown and onDragPointerUp.
PointerMove(x, y) ==
    LET left == JsAdd(drag.position.left, x - drag.initialPosition.x)
        top == JsAdd(drag.position.top, y - drag.initialPosition.y)
        at == [x |-> x, y |-> y]
    IN  /\ IF ~drag.tracking
           THEN /\ drag' = [drag EXCEPT !.last = at]
                /\ ev' = [Event("pointermove", "-", NoPos) EXCEPT !.ret = "ignored"]
           ELSE IF Throttled(drag.clock, drag.moveTime)
           THEN /\ drag' = [drag EXCEPT !.last = at]
                /\ ev' = [Event("pointermove", "-", NoPos) EXCEPT !.ret = "dropped"]
           ELSE /\ drag' = [drag EXCEPT !.moveTime = drag.clock,
                                        !.app = SetPosition(drag.app, left, top),
                                        !.last = at, !.accepted = drag.clock]
                /\ ev' = [Event("pointermove", "-", [NoPos EXCEPT !.left = left, !.top = top])
                             EXCEPT !.ret = "setPosition"]
        /\ UNCHANGED storeVars
        /\ UNCHANGED lateVars
        /\ UNCHANGED <<filters, wrapped, subscriptions>>

\* A pointerup event on the node, handled by onDragPointerUp while its
\* listener is on the node.
PointerUp ==
    /\ drag' = IF drag.tracking
               THEN [drag EXCEPT !.dragging = FALSE, !.tracking = FALSE, !.pressed = FALSE]
               ELSE [drag EXCEPT !.pressed = FALSE]
    /\ ev' = [Event("pointerup", "-", NoPos) EXCEPT
                 !.ret = IF drag.tracking THEN "returns" ELSE "ignored"]
    /\ UNCHANGED storeVars
    /\ UNCHANGED lateVars
    /\ UNCHANGED <<filters, wrapped, subscriptions>>

\* update({ active }) of the action
DragUpdate(active) ==
    /\ drag' = IF active THEN [drag EXCEPT !.down = TRUE] ELSE RemoveListeners(drag)
    /\ ev' = [Event("drag.update", "-", NoPos) EXCEPT
                 !.args = IF active THEN {"active"} ELSE {}]
    /\ UNCHANGED storeVars
    /\ UNCHANGED lateVars
    /\ UNCHANGED <<filters, wrapped, subscriptions>>

\* destroy() of the action
DragDestroy ==
    /\ drag' = RemoveListeners(drag)
    /\ ev' = Event("drag.destroy", "-", NoPos)
    /\ UNCHANGED storeVars
    /\ UNCHANGED lateVars
    /\ UNCHANGED <<filters, wrapped, subscriptions>>

\* Time passes between two events.
ClockTick(d) ==
    /\ drag.ticks < MaxTicks
    /\ drag' = [drag EXCEPT !.clock = @ + d, !.ticks = @ + 1]
    /\ ev' = Event("clock", "-", NoPos)
    /\ UNCHANGED storeVars
    /\ UNCHANGED lateVars
    /\ UNCHANGED <<filters, wrapped, subscriptions>>

\* ------------------------------------------------------------------------
\* TJSDocument and TJSDocumentCollection: the reactive wrappers
\* ------------------------------------------------------------------------

\* The wrapper classes: src/store/document and the collection wrapper of
\* _dist/store/index.js.
SrcDocument == "TJSDocument"
SrcCollection == "TJSDocumentCollection"
DistCollection == "dist.TJSDocumentCollection"
Wrappers == {SrcDocument, SrcCollection, DistCollection}

\* The values handed to the constructor and to set(): undefined, null, a
\* plain object and a document (collection) of the host. The global
\* `document` of the browser is a value of its own.
NoDocument == "undefined"
GlobalDocument == "globalThis.document"
HostDocuments == {"d1"}
WrapValues == {NoDocument, "null", "plain"} \cup HostDocuments

\* The subscribers: a plain handler and one that calls its unsubscribe
\* function when it is notified.
WrapHandlers == {"h1", "once"}

\* A wrapper nobody constructed yet: value is #document / #collection,
\* linked the host object whose `apps` holds the callbacks of the wrapper.
NoWrapper == [made |-> FALSE, value |-> NoDocument, linked |-> NoDocument]

\* `document instanceof foundry.abstract.Document`,
\* `collection instanceof DocumentCollection`
IsHostDocument(v) == v \in HostDocuments

\* The value set() stores: `this.#document = document` in TJSDocument and
\* `this.#collection = collection` in the _dist collection wrapper;
\* `this.#collection = document` in src/store/document/TJSDocumentCollection.js,
\* where `document` is the global of the browser.
StoredValue(w, v) == IF w = SrcCollection THEN GlobalDocument ELSE v

\* set(value) on the wrapper w in the state cur: the callbacks leave the
\* `apps` of the current value, null and a value that is no host object
\* throw a TypeError, a host object gets the callbacks, then the value is
\* stored. In the src collection wrapper `this.#collection.apps.findIndex`
\* reads `apps` of the global document, which is undefined: a TypeError.
WrapperAfterSet(w, cur, v) ==
    IF w = SrcCollection /\ cur.value = GlobalDocument
    THEN [state |-> cur, ret |-> "throws"]
    ELSE LET linked == IF cur.value # NoDocument THEN NoDocument ELSE cur.linked
         IN  IF v # NoDocument /\ ~IsHostDocument(v)
             THEN [state |-> [cur EXCEPT !.linked = linked], ret |-> "throws"]
             ELSE [state |-> [made |-> TRUE, value |-> StoredValue(w, v),
                              linked |-> IF IsHostDocument(v) THEN v ELSE linked],
                   ret |-> "returns"]

\* The unsubscribe function of subscribe(handler):
\* `const index = subscriptions.findIndex((sub) => sub === handler);
\*  if (index >= 0) { subscriptions.splice(index, 1); }`
RECURSIVE RemoveFirst(_, _)
RemoveFirst(subs, h) ==
    IF subs = <<>> THEN <<>>
    ELSE IF Head(subs) = h THEN Tail(subs)
    ELSE <<Head(subs)>> \o RemoveFirst(Tail(subs), h)

\* `for (let cntr = 0; cntr < subscriptions.length; cntr++)
\*  { subscriptions[cntr](document); }` from the index i on, over the live
\* array: the handlers called, in order, and the array afterwards.
RECURSIVE NotifyFrom(_, _)
NotifyFrom(subs, i) ==
    IF i > Len(subs) THEN [subs |-> subs, called |-> <<>>]
    ELSE LET h == subs[i]
             rest == NotifyFrom(IF h = "once" THEN RemoveFirst(subs, h) ELSE subs, i + 1)
         IN  [subs |-> rest.subs, called |-> <<h>> \o rest.called]

\* #notify()
Notify(subs) == NotifyFrom(subs, 1)

\* The outcome of the set() that `new` and set() run on the wrapper w.
WrapperSetBody(w, v, op) ==
    LET out == WrapperAfterSet(w, wrapped[w], v)
        note == Notify(subscriptions[w])
    IN  /\ wrapped' = [wrapped EXCEPT ![w] = out.state]
        /\ IF out.ret = "throws"
           THEN /\ UNCHANGED subscriptions
                /\ ev' = [Event(op, w, NoPos) EXCEPT !.name = v, !.ret = "throws"]
           ELSE /\ subscriptions' = [subscriptions EXCEPT ![w] = note.subs]
                /\ ev' = [Event(op, w, NoPos) EXCEPT
                             !.name = v, !.cbs = note.called, !.ids = <<out.state.value>>]
        /\ UNCHANGED storeVars
        /\ UNCHANGED lateVars
        /\ UNCHANGED <<filters, drag>>

\* new TJSDocument(value), new TJSDocumentCollection(value): the
\* constructor ends with this.set(value); a constructor that throws makes
\* no wrapper.
WrapperNew(w, v) ==
    /\ ~wrapped[w].made
    /\ WrapperAfterSet(w, wrapped[w], v).ret = "returns"
    /\ WrapperSetBody(w, v, "wrapper.new")

\* set(value)
WrapperSet(w, v) ==
    /\ wrapped[w].made
    /\ WrapperSetBody(w, v, "wrapper.set")

\* get()
WrapperGet(w) ==
    /\ wrapped[w].made
    /\ ev' = [Event("wrapper.get", w, NoPos) EXCEPT !.ids = <<wrapped[w].value>>]
    /\ UNCHANGED storeVars
    /\ UNCHANGED lateVars
    /\ UNCHANGED extVars

\* subscribe(handler): push, then `handler(this.#document)`. The handler
\* holds its unsubscribe function only once subscribe() has returned.
WrapperSubscribe(w, h) ==
    /\ wrapped[w].made
    /\ \A i \in 1..Len(subscriptions[w]) : subscriptions[w][i] # h
    /\ subscriptions' = [subscriptions EXCEPT ![w] = Append(@, h)]
    /\ ev' = [Event("wrapper.subscribe", w, NoPos) EXCEPT
                 !.name = h, !.cbs = <<h>>, !.ids = <<wrapped[w].value>>]
    /\ UNCHANGED storeVars
    /\ UNCHANGED lateVars
    /\ UNCHANGED <<filters, drag, wrapped>>

\* The unsubscribe function subscribe(handler) returned
WrapperUnsubscribe(w, h) ==
    /\ \E i \in 1..Len(subscriptions[w]) : subscriptions[w][i] = h
    /\ subscriptions' = [subscriptions EXCEPT ![w] = RemoveFirst(@, h)]
    /\ ev' = [Event("wrapper.unsubscribe", w, NoPos) EXCEPT !.name = h]
    /\ UNCHANGED storeVars
    /\ UNCHANGED lateVars
    /\ UNCHANGED <<filters, drag, wrapped>>

\* #deleted(), the `close` callback the host calls when it deletes the
\* object: a host object is let go, then #notify() runs (no delete function
\* is configured). The _dist wrapper notifies only with notifyOnDelete,
\* which is false by default.
WrapperDeleted(w) ==
    LET note == IF w = DistCollection THEN [subs |-> subscriptions[w], called |-> <<>>]
                ELSE Notify(subscriptions[w])
        after == IF IsHostDocument(wrapped[w].value)
                 THEN [wrapped[w] EXCEPT !.value = NoDocument, !.linked = NoDocument]
                 ELSE wrapped[w]
    IN  /\ wrapped[w].made
        /\ wrapped[w].linked # NoDocument
        /\ wrapped' = [wrapped EXCEPT ![w] = after]
        /\ subscriptions' = [subscriptions EXCEPT ![w] = note.subs]
        /\ ev' = [Event("wrapper.deleted", w, NoPos) EXCEPT
                     !.cbs = note.called, !.ids = <<after.value>>]
        /\ UNCHANGED storeVars
        /\ UNCHANGED lateVars
        /\ UNCHANGED <<filters, drag>>

\* ------------------------------------------------------------------------
\* stores.dimension and stores.transform: the derived readable stores
\* ------------------------------------------------------------------------

\* The subscribers a derived store is given at most
MaxSubscribers == 2

DerivedStores == {"dimension", "transform"}

\* No subscriber, and `calculateTransform: false` of #options
NoDerived == [dimension |-> 0, transform |-> 0, calculateTransform |-> FALSE]

\* stores.dimension.subscribe(handler) / stores.transform.subscribe(handler)
DerivedSubscribe(s, name) ==
    /\ derived[s][name] < MaxSubscribers
    /\ derived' = [derived EXCEPT ![s][name] = @ + 1]
    /\ ev' = [Event("derived.subscribe", s, NoPos) EXCEPT !.name = name]
    /\ UNCHANGED storeVars
    /\ UNCHANGED <<filters, drag, wrapped, subscriptions, menu, older>>

\* The unsubscribe function a subscribe() of a derived store returned
DerivedUnsubscribe(s, name) ==
    /\ derived[s][name] > 0
    /\ derived' = [derived EXCEPT ![s][name] = @ - 1]
    /\ ev' = [Event("derived.unsubscribe", s, NoPos) EXCEPT !.name = name]
    /\ UNCHANGED storeVars
    /\ UNCHANGED <<filters, drag, wrapped, subscriptions, menu, older>>

\* ------------------------------------------------------------------------
\* TJSMenu: the context menu
\* ------------------------------------------------------------------------

\* The context menus created at most
MaxMenus == 4

\* `static #contextMenu = void 0`: 0 stands for undefined, a menu is known
\* by the rank of its creation. handed: the menus passed to
\* outroAndDestroy; destroyed: those of them whose outro has ended;
\* awaiting: the menus whose outroAndDestroy a suspended
\* createContext({ async: true }) awaits.
NoMenu == [tracked |-> 0, created |-> 0, handed |-> {}, destroyed |-> {}, awaiting |-> {}]

\* `this.#contextMenu = new TJSContextMenu({ ... })` and the registration of
\* its 'close' handler: the end of createContext().
MenuCreated(m) == [m EXCEPT !.created = @ + 1, !.tracked = m.created + 1]

\* `const menu = this.#contextMenu; this.#contextMenu = void 0;
\*  outroAndDestroy(menu)`
MenuRetired(m) == [m EXCEPT !.tracked = 0, !.handed = @ \cup {m.tracked}]

\* TJSMenu.createContext({ async }) up to its end or, with a tracked menu
\* and async, up to `await outroAndDestroy(menu)`.
CreateContext(async) ==
    /\ menu.created + Cardinality(menu.awaiting) < MaxMenus
    /\ IF menu.tracked # 0
       THEN IF async
            THEN /\ menu' = [MenuRetired(menu) EXCEPT !.awaiting = @ \cup {menu.tracked}]
                 /\ ev' = [Event("createContext", "-", NoPos) EXCEPT
                              !.args = {"async"}, !.ret = "awaits"]
            ELSE /\ menu' = MenuCreated(MenuRetired(menu))
                 /\ ev' = Event("createContext", "-", NoPos)
       ELSE /\ menu' = MenuCreated(menu)
            /\ ev' = [Event("createContext", "-", NoPos) EXCEPT
                         !.args = IF async THEN {"async"} ELSE {}]
    /\ UNCHANGED storeVars
    /\ UNCHANGED <<filters, drag, wrapped, subscriptions, derived, older>>

\* The outro of a menu handed to outroAndDestroy ends: the menu is
\* destroyed and the promise resolves; the createContext() that awaited it,
\* if any, goes on to its end.
OutroEnds(id) ==
    /\ id \in menu.handed \ menu.destroyed
    /\ IF id \in menu.awaiting
       THEN /\ menu' = MenuCreated([menu EXCEPT !.awaiting = @ \ {id},
                                                !.destroyed = @ \cup {id}])
            /\ ev' = [Event("createContext", "-", NoPos) EXCEPT
                         !.args = {"async", "resumed"}, !.ids = <<id>>]
       ELSE /\ menu' = [menu EXCEPT !.destroyed = @ \cup {id}]
            /\ ev' = [Event("outro.end", "-", NoPos) EXCEPT !.ids = <<id>>]
    /\ UNCHANGED storeVars
    /\ UNCHANGED <<filters, drag, wrapped, subscriptions, derived, older>>

\* A menu that was not handed to outroAndDestroy emits 'close': its handler
\* retires whatever menu is tracked.
MenuClose(id) ==
    /\ id \in 1..menu.created
    /\ id \notin menu.handed
    /\ menu' = IF menu.tracked # 0 THEN MenuRetired(menu) ELSE menu
    /\ ev' = [Event("menu.close", "-", NoPos) EXCEPT !.ids = <<id>>]
    /\ UNCHANGED storeVars
    /\ UNCHANGED <<filters, drag, wrapped, subscriptions, derived, older>>

\* ------------------------------------------------------------------------
\* The older Position: set, #updateElement, elementUpdated and animateTo
\* ------------------------------------------------------------------------

\* The animateTo() call of the store: pc is "idle" (none yet), "frame"
\* (at `await nextAnimationFrame()`), "update" (at `await
\* this.set(newData).elementUpdated`) or "done"; elapsed is the number of
\* frames since the call read `start`.
NoCall == [pc |-> "idle", initial |-> 0, destination |-> 0, duration |-> 0, elapsed |-> 0]

\* The store after its constructor: the parent has no target element yet
\* (el) and there is no validator (veto: a validator that returns null for
\* a negative left). left is a number of pixels; raf lists the callbacks
\* waiting for the next animation frame, in the order of their requests;
\* promises holds the callers whose resolve function is in
\* #elementUpdatePromises.
OldPosition ==
    [el |-> FALSE, veto |-> FALSE, left |-> 0, invoked |-> FALSE, raf |-> <<>>,
     promises |-> {}, animKeys |-> {}, call |-> NoCall]

\* The older set({ left: n }): the validators run with or without element
\* and a null ends the call; `if (el) { ...; if (!this.#updateElementInvoked)
\* { this.#updateElement(); } }` requests the frame callback.
OldSetBody(o, n) ==
    IF o.veto /\ n < 0
    THEN o
    ELSE [o EXCEPT !.left = n,
                   !.invoked = @ \/ o.el,
                   !.raf = IF o.el /\ ~o.invoked THEN Append(@, "update") ELSE @]

\* lerp(initial, destination, current / duration), rounded by set()
OldLerp(c) == c.initial + ((c.destination - c.initial) * c.elapsed) \div c.duration

\* animateTo() from its loop test on, `current` being c.elapsed: a step of
\* the loop up to `await this.set(newData).elementUpdated`, or the final
\* update past the loop.
OldAnimLoop(o) ==
    IF o.call.elapsed < o.call.duration
    THEN [OldSetBody(o, OldLerp(o.call)) EXCEPT
             !.promises = @ \cup {"animateTo"}, !.call.pc = "update"]
    ELSE [OldSetBody([o EXCEPT !.animKeys = {}], o.call.destination) EXCEPT
             !.call.pc = "done"]

\* A callback of the animation frame and the continuations it resumes:
\* #updateElement past its await (the flag is cleared, every stored
\* promise resolved, with or without element), or animateTo() past
\* `const start = await nextAnimationFrame()`.
OldCallback(o, cb) ==
    IF cb = "update"
    THEN LET o1 == [o EXCEPT !.invoked = FALSE, !.promises = {}]
         IN  IF "animateTo" \in o.promises THEN OldAnimLoop(o1) ELSE o1
    ELSE OldAnimLoop([o EXCEPT !.call.elapsed = 0])

\* The callbacks of one frame, in the order of their requests
RECURSIVE OldRunFrame(_, _)
OldRunFrame(o, q) ==
    IF q = <<>> THEN o ELSE OldRunFrame(OldCallback(o, Head(q)), Tail(q))

\* The targets and durations of the older animateTo(), and the arguments
\* of the older set()
OldTargets == {4, -4}
OldDurations == {0, 2}
OldLefts == {0, -1}

\* position.set({ left: n }) of the older Position
OldSet(n) ==
    /\ older' = OldSetBody(older, n)
    /\ ev' = [Event("old.set", "-", NoPos) EXCEPT !.ids = <<n>>]
    /\ UNCHANGED storeVars
    /\ UNCHANGED <<filters, drag, wrapped, subscriptions, derived, menu>>

\* position.animateTo({ left: n }, { duration }) of the older Position
OldAnimateTo(n, duration) ==
    /\ older.call.pc \in {"idle", "done"}
    /\ IF n # older.left /\ "left" \notin older.animKeys
       THEN older' = [older EXCEPT
                      !.animKeys = {"left"},
                      !.raf = Append(@, "animateTo"),
                      !.call = [pc |-> "frame", initial |-> older.left, destination |-> n,
                                duration |-> duration, elapsed |-> 0]]
       ELSE \* Nothing to animate, so return now.
            UNCHANGED older
    /\ ev' = [Event("old.animateTo", "-", NoPos) EXCEPT !.ids = <<n, duration>>]
    /\ UNCHANGED storeVars
    /\ UNCHANGED <<filters, drag, wrapped, subscriptions, derived, menu>>

\* The parent gains or loses its target element.
OldTarget(el) ==
    /\ older.el # el
    /\ older' = [older EXCEPT !.el = el]
    /\ ev' = Event("old.target", "-", NoPos)
    /\ UNCHANGED storeVars
    /\ UNCHANGED <<filters, drag, wrapped, subscriptions, derived, menu>>

\* position.validators.add() or .clear(): the vetoing validator is
\* installed or removed.
OldValidators(veto) ==
    /\ older.veto # veto
    /\ older' = [older EXCEPT !.veto = veto]
    /\ ev' = Event("old.validators", "-", NoPos)
    /\ UNCHANGED storeVars
    /\ UNCHANGED <<filters, drag, wrapped, subscriptions, derived, menu>>

\* The animation frame: time moves on by one for the loop of animateTo(),
\* and the callbacks requested before the frame run.
OldFrame ==
    /\ older' = OldRunFrame(
                 [older EXCEPT !.raf = <<>>,
                             !.call.elapsed = IF older.call.pc = "update" /\ @ < older.call.duration
                                              THEN @ + 1 ELSE @],
                 older.raf)
    /\ ev' = [Event("old.frame", "-", NoPos) EXCEPT !.cbs = older.raf]
    /\ UNCHANGED storeVars
    /\ UNCHANGED <<filters, drag, wrapped, subscriptions, derived, menu>>

\* ------------------------------------------------------------------------
\* Construction and the specifications
\* ------------------------------------------------------------------------

\* The constructor, key by key: an option is taken when it is finite, null
\* or (width / height) 'auto'; left, top, width, height and zIndex are
\* rounded, rotateZ and scale are stored as given.
ConstructKey(f, x) ==
    CASE f \in {"left", "top", "zIndex"} ->
            IF IsFinite(x) \/ x = Null THEN MathRound(x) ELSE Null
      [] f \in {"width", "height"} ->
            IF IsFinite(x) \/ x = Auto \/ x = Null THEN MathRound(x) ELSE Null
      [] f \in {"rotateZ", "scale"} ->
            IF IsFinite(x) \/ x = Null THEN x ELSE Null

\* #data after `new Position(parent, options)`
Construct(options) == [f \in Fields |-> ConstructKey(f, options[f])]

\* The options the stores are constructed with: none, or a placed window.
StartData ==
    [left |-> I(0), top |-> I(0), width |-> I(2), height |-> Auto,
     rotateZ |-> Null, scale |-> Null, zIndex |-> Null]

InitData == {NullData, StartData}

\* Constructor options: { left: 100, top: 50, width: 200, height: 100 }, and
\* a fraction with a scale beyond 1000.
PlacedOptions ==
    [NoPos EXCEPT !.left = I(100), !.top = I(50), !.width = I(200), !.height = I(100)]

ScaledOptions == [NoPos EXCEPT !.left = Num(3), !.scale = I(1001)]

ConstructorOptions == {NoPos, PlacedOptions, ScaledOptions}

\* The validator pipelines the stores are constructed with.
ValidatorConfigs ==
    {<<>>, <<"clampLeft">>, <<"vetoNegLeft", "clampLeft">>, <<"clampLeft", "vetoNegLeft">>,
     <<"clampLeft", "veto", "vetoNegLeft">>}

\* The position arguments of set(): a fraction to round, a negative offset
\* for the validators, NaN, and transform keys with a scale to clamp.
SetInputs ==
    {[NoPos EXCEPT !.left = Num(3), !.width = Auto],
     [NoPos EXCEPT !.left = I(-1), !.zIndex = Num(1)],
     [NoPos EXCEPT !.left = NaN],
     [NoPos EXCEPT !.rotateZ = Num(1), !.scale = I(1001)]}

\* The position arguments of the specification of the frame scheduling
FrameInputs == {[NoPos EXCEPT !.left = Num(3)], [NoPos EXCEPT !.zIndex = I(1)]}

\* The position arguments and durations of animateTo()
AnimInputs ==
    {[NoPos EXCEPT !.left = I(3)],
     [NoPos EXCEPT !.left = I(1), !.top = I(2)]}

Durations == {0, 1}

\* The names snapshots are saved under
Names == {"a", "b"}

\* The state after the constructors, the derived stores being in the
\* state dv: no element is mounted yet.
ConstructedWith(dv) ==
    /\ data \in [Stores -> InitData \cup {Construct(o) : o \in ConstructorOptions}]
    /\ validators \in [Stores -> ValidatorConfigs]
    /\ changeSet = [s \in Stores |-> {}]
    /\ styleCached = [s \in Stores |-> FALSE]
    /\ connected = [s \in Stores |-> FALSE]
    /\ elStyle = [s \in Stores |-> NoStyle]
    /\ elementUpdated = [s \in Stores |-> NoPromise]
    /\ animKeys = [s \in Stores |-> {}]
    /\ uemList = <<>>
    /\ setCalls = [s \in Stores |-> 0]
    /\ tasks = <<>>
    /\ newList = <<>>
    /\ activeList = <<>>
    /\ animPromise = "none"
    /\ dataSaved = [s \in Stores |-> [n \in Names |-> NoSnapshot]]
    /\ defaultData = [s \in Stores |-> NoSnapshot]
    /\ positionable = [s \in Stores |-> TRUE]
    /\ now = 0
    /\ ev = Event("init", "-", NoPos)
    /\ filters = <<>>
    /\ drag = InitDrag
    /\ wrapped = [w \in Wrappers |-> NoWrapper]
    /\ subscriptions = [w \in Wrappers |-> <<>>]
    /\ derived = dv
    /\ menu = NoMenu
    /\ older = OldPosition
    /\ transforms = [s \in Stores |-> TransformsOf(data[s])]

\* The state after constructors without the option calculateTransform.
Init == ConstructedWith([s \in Stores |-> NoDerived])

\* One store under set(), the frame tick and its element coming and going.
InitSet ==
    /\ Init
    /\ data["s1"] \in InitData
    /\ data["s2"] = StartData
    /\ validators = [s \in Stores |-> IF s = "s1" THEN <<"vetoNegLeft", "clampLeft">> ELSE <<>>]

Next ==
    \/ \E p \in SetInputs : Set("s1", p)
    \/ Frame
    \/ Connect("s1")
    \/ Disconnect("s1")

Spec == InitSet /\ [][Next]_vars

\* Two stores that share the frame tick of the update manager.
InitFrame ==
    Init /\ data = [s \in Stores |-> StartData] /\ validators = [s \in Stores |-> <<>>]

NextFrame ==
    \/ \E p \in FrameInputs : Set("s1", p)
    \/ Set("s2", [NoPos EXCEPT !.left = Num(3)])
    \/ Frame
    \/ \E s \in Stores : Connect(s)
    \/ \E s \in Stores : Disconnect(s)

SpecFrame == InitFrame /\ [][NextFrame]_vars

\* Two stores under animateTo(), the frame tick and cancelAll().
InitAnim ==
    Init /\ data = [s \in Stores |-> StartData] /\ validators = [s \in Stores |-> <<>>]

NextAnim ==
    \/ \E s \in Stores, p \in AnimInputs, d \in Durations : AnimateTo(s, p, d)
    \/ Frame
    \/ CancelAll
    \/ \E s \in Stores : Connect(s)
    \/ \E s \in Stores : Disconnect(s)

SpecAnim == InitAnim /\ [][NextAnim]_vars

\* A store constructed with { left: 100, top: 50, width: 200, height: 100 }
\* under set() of one key, with and without its element.
PartialInputs == {[NoPos EXCEPT !.left = I(150)], [NoPos EXCEPT !.top = Num(121)]}

InitPartial ==
    /\ Init
    /\ data = [s \in Stores |-> Construct(PlacedOptions)]
    /\ validators = [s \in Stores |-> <<>>]

NextPartial ==
    \/ \E p \in PartialInputs : Set("s1", p)
    \/ Frame
    \/ Connect("s1")
    \/ Disconnect("s1")

SpecPartial == InitPartial /\ [][NextPartial]_vars

\* One store under set() and the snapshots, between two frame ticks.
SaveInputs ==
    {[NoPos EXCEPT !.left = Num(3)],
     [NoPos EXCEPT !.zIndex = I(1), !.scale = I(1001)]}

RestoreArgs == {{}, {"remove"}, {"silent"}, {"properties"}}

InitSave ==
    /\ Init
    /\ data = [s \in Stores |-> IF s = "s1" THEN NullData ELSE StartData]
    /\ validators = [s \in Stores |-> <<>>]

NextSave ==
    \/ \E p \in SaveInputs : Set("s1", p)
    \/ Save("s1", "a")
    \/ \E n \in Names : GetSave("s1", n)
    \/ \E n \in Names : Remove("s1", n)
    \/ \E n \in Names, args \in RestoreArgs : Restore("s1", n, args)
    \/ Connect("s1")

SpecSave == InitSave /\ [][NextSave]_vars

\* One store under set(), reset() and animateTo() between two frame ticks,
\* with a parent that switches options.positionable.
ResetArgs == {<<FALSE, TRUE, FALSE>>, <<TRUE, TRUE, TRUE>>, <<FALSE, FALSE, TRUE>>}

InitReset ==
    /\ Init
    /\ data = [s \in Stores |-> StartData]
    /\ validators = [s \in Stores |-> <<>>]

NextReset ==
    \/ \E p \in SaveInputs : Set("s1", p)
    \/ \E a \in ResetArgs : Reset("s1", a[1], a[2], a[3])
    \/ \E d \in Durations : AnimateTo("s1", [NoPos EXCEPT !.left = I(3)], d)
    \/ \E b \in BOOLEAN : SetPositionable("s1", b)
    \/ CancelAll
    \/ Connect("s1")

SpecReset == InitReset /\ [][NextReset]_vars

\* One store from its constructor on, under set(), restore() and reset()
\* with finite, null and 'auto' values, and the frame tick.
InitData12 ==
    /\ Init
    /\ data["s1"] \in {Construct(o) : o \in ConstructorOptions}
    /\ data["s2"] = StartData
    /\ validators = [s \in Stores |-> <<>>]

NextData12 ==
    \/ \E p \in SaveInputs : Set("s1", p)
    \/ Save("s1", "a")
    \/ Restore("s1", "a", {})
    \/ Reset("s1", FALSE, TRUE, FALSE)
    \/ AnimateTo("s1", [NoPos EXCEPT !.left = I(3)], 1)
    \/ Frame
    \/ Connect("s1")

SpecData == InitData12 /\ [][NextData12]_vars

\* One store under set(), restore(), reset() and the frame tick, whose
\* parent is replaced and whose validators veto a negative left.
ParentInputs ==
    {[NoPos EXCEPT !.left = Num(3)], [NoPos EXCEPT !.left = I(-1), !.zIndex = Num(1)]}

InitParent ==
    /\ Init
    /\ data = [s \in Stores |-> StartData]
    /\ validators = [s \in Stores |-> IF s = "s1" THEN <<"vetoNegLeft", "clampLeft">> ELSE <<>>]

NextParent ==
    \/ \E p \in ParentInputs : Set("s1", p)
    \/ Save("s1", "a")
    \/ \E args \in {{}, {"silent"}} : Restore("s1", "a", args)
    \/ Reset("s1", FALSE, TRUE, FALSE)
    \/ \E b \in BOOLEAN : SetPositionable("s1", b)
    \/ \E c \in BOOLEAN : SetParent("s1", c)
    \/ Frame
    \/ Connect("s1")

SpecParent == InitParent /\ [][NextParent]_vars

\* One store under animateTo() with targets that are numbers, null or
\* 'auto', between calls of set() that move the transform keys.
TargetInputs ==
    {[NoPos EXCEPT !.left = I(3), !.top = I(0)],
     [NoPos EXCEPT !.rotateZ = I(1), !.scale = Null],
     [NoPos EXCEPT !.rotateZ = Null, !.scale = I(2)],
     [NoPos EXCEPT !.width = Auto],
     [NoPos EXCEPT !.left = I(0), !.height = I(5)]}

NextTarget ==
    \/ \E p \in TargetInputs : AnimateTo("s1", p, 1)
    \/ Set("s1", [NoPos EXCEPT !.rotateZ = Num(1), !.scale = I(1001)])
    \/ Frame
    \/ CancelAll

SpecTarget == InitAnim /\ [][NextTarget]_vars

\* One store under set() with a pipeline of two or three validators, in
\* either order of the clamp and the veto.
InitValid ==
    /\ Init
    /\ data = [s \in Stores |-> StartData]
    /\ validators["s1"] \in {vs \in ValidatorConfigs : Len(vs) >= 2}
    /\ validators["s2"] = <<>>

NextValid ==
    \/ \E p \in ParentInputs : Set("s1", p)
    \/ Frame
    \/ Connect("s1")
    \/ Disconnect("s1")

SpecValid == InitValid /\ [][NextValid]_vars

\* One store, constructed with or without `calculateTransform`, under set()
\* and the frame tick while its derived stores gain and lose subscribers.
DerivedInputs ==
    {[NoPos EXCEPT !.left = Num(3)], [NoPos EXCEPT !.width = I(5), !.zIndex = I(1)],
     [NoPos EXCEPT !.width = I(2)]}

InitDerived ==
    /\ \E c \in BOOLEAN :
          ConstructedWith([s \in Stores |-> [NoDerived EXCEPT !.calculateTransform = c]])
    /\ data = [s \in Stores |-> StartData]
    /\ validators = [s \in Stores |-> <<>>]

NextDerived ==
    \/ \E p \in DerivedInputs : Set("s1", p)
    \/ \E name \in DerivedStores : DerivedSubscribe("s1", name)
    \/ \E name \in DerivedStores : DerivedUnsubscribe("s1", name)
    \/ Frame
    \/ Connect("s1")

SpecDerived == InitDerived /\ [][NextDerived]_vars

\* One store called with malformed arguments among calls of set().
InitArgs ==
    /\ Init
    /\ data = [s \in Stores |-> StartData]
    /\ validators = [s \in Stores |-> <<>>]

NextArgs ==
    \/ \E op \in DOMAIN CheckedArgs : \E arg \in CheckedArgs[op] : BadCall("s1", op, arg)
    \/ \E p \in SaveInputs : Set("s1", p)
    \/ \E b \in BOOLEAN : SetPositionable("s1", b)
    \/ Connect("s1")

SpecArgs == InitArgs /\ [][NextArgs]_vars

\* Two stores at left 0 under animateTo({ left: 300 }, { duration: 100 }).
EaseTarget == [NoPos EXCEPT !.left = I(300)]

EaseDuration == 100

InitEase ==
    /\ Init
    /\ data = [s \in Stores |-> StartData]
    /\ validators = [s \in Stores |-> <<>>]

NextEase ==
    \/ \E s \in Stores : AnimateTo(s, EaseTarget, EaseDuration)
    \/ Frame
    \/ CancelAll
    \/ \E s \in Stores : Connect(s)
    \/ \E s \in Stores : Disconnect(s)

SpecEase == InitEase /\ [][NextEase]_vars

\* Two stores under the operations of a store and the frame tick: the first
\* one without element, the second one with an element that gets mounted.
IndepInput == [NoPos EXCEPT !.left = Num(3), !.zIndex = I(1)]

InitIndep ==
    /\ Init
    /\ data = [s \in Stores |-> StartData]
    /\ validators = [s \in Stores |-> <<>>]

NextIndep ==
    \/ \E s \in Stores : Set(s, IndepInput)
    \/ \E s \in Stores : AnimateTo(s, [NoPos EXCEPT !.left = I(3)], 1)
    \/ \E s \in Stores : Save(s, "a")
    \/ Restore("s1", "a", {})
    \/ Reset("s1", FALSE, TRUE, FALSE)
    \/ Frame
    \/ Connect("s2")

SpecIndep == InitIndep /\ [][NextIndep]_vars

\* One store with validators under set(), save() and the modes of restore().
RestoreInputs == {[NoPos EXCEPT !.left = Num(3)], [NoPos EXCEPT !.left = I(-1)]}

RestoreModes ==
    {{}, {"silent"}, {"animateTo"}, {"silent", "animateTo"}, {"silent", "properties"}}

InitRestore ==
    /\ Init
    /\ data = [s \in Stores |-> StartData]
    /\ validators = [s \in Stores |-> IF s = "s1" THEN <<"vetoNegLeft", "clampLeft">> ELSE <<>>]

NextRestore ==
    \/ \E p \in RestoreInputs : Set("s1", p)
    \/ Save("s1", "a")
    \/ \E args \in RestoreModes : Restore("s1", "a", args)
    \/ Connect("s1")

SpecRestore == InitRestore /\ [][NextRestore]_vars

\* The collaborators next to two untouched stores
InitCollab ==
    /\ Init
    /\ data = [s \in Stores |-> StartData]
    /\ validators = [s \in Stores |-> <<>>]

\* The filter adapter under add / remove / removeBy / removeById / clear.
NextFilters ==
    \/ \E fn \in FilterFns, id \in FilterIds, w \in FilterWeights : FiltersAdd(fn, id, w)
    \/ \E fn \in FilterFns : FiltersRemove(fn)
    \/ \E cb \in RemoveByCallbacks : FiltersRemoveBy(cb)
    \/ \E id \in FilterIds : FiltersRemoveById(id)
    \/ FiltersClear

SpecFilters == InitCollab /\ [][NextFilters]_vars

\* The drag action under pointer events, update(), destroy() and the clock.
NextDrag ==
    \/ \E at \in Pointers : PointerDown(at.x, at.y)
    \/ \E at \in Pointers : PointerMove(at.x, at.y)
    \/ PointerUp
    \/ \E a \in BOOLEAN : DragUpdate(a)
    \/ DragDestroy
    \/ \E d \in ClockSteps : ClockTick(d)

SpecDrag == InitCollab /\ [][NextDrag]_vars

\* The three wrappers from their construction on.
NextWrap ==
    \/ \E w \in Wrappers, v \in WrapValues : WrapperNew(w, v)
    \/ \E w \in Wrappers, v \in WrapValues : WrapperSet(w, v)
    \/ \E w \in Wrappers : WrapperGet(w)
    \/ \E w \in Wrappers, h \in WrapHandlers : WrapperSubscribe(w, h)
    \/ \E w \in Wrappers, h \in WrapHandlers : WrapperUnsubscribe(w, h)
    \/ \E w \in Wrappers : WrapperDeleted(w)

SpecWrap == InitCollab /\ [][NextWrap]_vars

\* One store of the older Position under set(), animateTo() and the frame;
\* the browser keeps delivering animation frames.
InitOld == InitCollab

NextOld ==
    \/ \E n \in OldLefts : OldSet(n)
    \/ \E n \in OldTargets, d \in OldDurations : OldAnimateTo(n, d)
    \/ \E el \in BOOLEAN : OldTarget(el)
    \/ \E veto \in BOOLEAN : OldValidators(veto)
    \/ OldFrame

SpecOld == InitOld /\ [][NextOld]_vars

SpecOldLive == SpecOld /\ WF_vars(OldFrame)

\* The context menu under createContext(), sync and async, and 'close'.
NextMenu ==
    \/ \E async \in BOOLEAN : CreateContext(async)
    \/ \E id \in 1..MaxMenus : OutroEnds(id)
    \/ \E id \in 1..MaxMenus : MenuClose(id)

SpecMenu == InitCollab /\ [][NextMenu]_vars

\* ------------------------------------------------------------------------
\* Claims
\* ------------------------------------------------------------------------

\* C1: a set() on a store with a connected element in which a validator
\* returns null changes no canonical field of any store, registers nothing
\* with the update manager (no registration, no new elementUpdated promise)
\* and notifies no subscriber.
C1_VetoHasNoEffect ==
    [][(ev'.op = "set" /\ ev'.vetoed)
        => /\ data' = data
           /\ uemList' = uemList
           /\ elementUpdated' = elementUpdated
           /\ ev'.notified = {}]_vars

\* C1 witness: a vetoed set() on a connected store whose argument differs
\* from the canonical data, made while an earlier set() waits for the frame.
C1_Witness ==
    /\ ev.op = "set"
    /\ ev.vetoed
    /\ connected[ev.s]
    /\ ev.p.left # data[ev.s].left
    /\ elementUpdated[ev.s] = Pending

\* C10: a set() that repeats the set() before it (same store, identical
\* values) sets no change-set bit, changes no canonical field, leaves the
\* change set as the first call left it (so no further style write) and
\* notifies no subscriber.
C10_RepeatedSetIsIdempotent ==
    [][(ev'.op = "set" /\ ev'.repeat)
        => /\ ev'.bits = {}
           /\ data' = data
           /\ changeSet' = changeSet
           /\ ev'.notified = {}]_vars

\* C10, for the arguments without NaN (not the claim: what the code keeps of it).
C10_RepeatedSetWithoutNaN ==
    [][(ev'.op = "set" /\ ev'.repeat /\ \A f \in Fields : ev'.p[f] # NaN)
        => /\ ev'.bits = {}
           /\ data' = data
           /\ changeSet' = changeSet
           /\ ev'.notified = {}]_vars

\* The number of times x occurs in the sequence q
Count(q, x) == Cardinality({i \in 1..Len(q) : q[i] = x})

\* C8: at a frame tick the DOM-sync callback of an element is invoked exactly
\* once if one or more set() calls reached the element since the frame
\* before, whatever their number and whatever the other stores did, and is
\* not invoked otherwise.
C8_OneCallbackPerElement ==
    [][ev'.op = "frame"
        => \A s \in Stores :
              Count(ev'.cbs, s) = IF setCalls[s] > 0 THEN 1 ELSE 0]_vars

\* C8 witness: a frame after MaxSetCalls set() calls on one element and a
\* set() on the other.
C8_Witness ==
    /\ ev.op = "frame"
    /\ ev.calls["s1"] = MaxSetCalls
    /\ ev.calls["s2"] > 0
    /\ Len(ev.cbs) = 2

\* C9: a frame tick resolves every pending elementUpdated promise with the
\* timestamp of that frame, and by then the DOM-sync callback of the store
\* has run: it is among the callbacks of the frame and, for a connected
\* element, has consumed the change set.
C9_PromisesResolveAfterSync ==
    [][ev'.op = "frame"
        => \A s \in Stores :
              elementUpdated[s] = Pending
              => /\ elementUpdated'[s] = Resolved(now')
                 /\ Count(ev'.cbs, s) = 1
                 /\ connected[s] => changeSet'[s] = {}]_vars

\* C9 witness: a frame that resolved the promises of both stores with its
\* timestamp after a callback that had changes to write.
C9_Witness ==
    /\ ev.op = "frame"
    /\ \A s \in Stores : elementUpdated[s] = Resolved(now)
    /\ ev.notified # {}
    /\ now > 1

\* The tasks whose promise is pending
Unresolved == {i \in 1..Len(tasks) : ~tasks[i].resolved}

\* C2: among the tasks of the new and the active list, no field of a store is
\* a key of two tasks, and every key of a listed task is held in the
\* currentAnimationKeys of its store.
C2_OneTaskPerField ==
    \A i \in Listed :
        /\ tasks[i].keys \subseteq animKeys[tasks[i].position]
        /\ \A j \in Listed :
              (i # j /\ tasks[i].position = tasks[j].position)
              => tasks[i].keys \cap tasks[j].keys = {}

\* C2 witness: a second animateTo() on a store named a field of a listed
\* task, lost it and was listed with the rest, after a frame tick.
C2_Witness ==
    /\ ev.op = "animateTo"
    /\ ev.ids # <<>>
    /\ now > 0
    /\ \E i \in Listed :
          /\ i # ev.ids[1]
          /\ tasks[i].position = ev.s
          /\ tasks[i].keys \cap KeysOf(ev.p) # {}

\* C3: the promise of animateTo() is never left without the animation loop:
\* while a promise is pending, animate() is waiting for the next frame tick
\* and has not been rejected.
C3_PendingPromiseIsServed ==
    \A i \in Unresolved : animPromise = "awaitFrame"

\* C4: a frame tick that finds elapsed >= duration for a pending task of
\* positive duration resolves its promise and leaves the destination in the
\* canonical value of each of its keys.
C4_TerminalFrameSetsDestination ==
    [][ev'.op = "frame"
        => \A i \in Unresolved :
              (/\ tasks[i].duration > 0
               /\ tasks'[i].start >= 0
               /\ now' - tasks'[i].start >= tasks[i].duration)
              => /\ tasks'[i].resolved
                 /\ \A f \in tasks[i].keys :
                       data'[tasks[i].position][f] = tasks[i].destination[f]]_vars

\* C5: the first frame tick after animateTo() with duration 0 resolves the
\* promise with the canonical value of each key at its destination.
C5_ZeroDurationSnaps ==
    [][ev'.op = "frame"
        => \A i \in Range(newList) :
              tasks[i].duration = 0
              => /\ tasks'[i].resolved
                 /\ \A f \in tasks[i].keys :
                       data'[tasks[i].position][f] = tasks[i].destination[f]]_vars

\* C6: when a second animateTo() names a field f that a pending task of the
\* store animates, the second task does not have f among its keys, its other
\* keys reach their destination at its terminal frame, and the first task
\* ends with f at the destination of the first call.
C6_OverlapKeepsFirstAnimation ==
    [][ev'.op = "frame"
        => \A i, j \in Unresolved :
              (/\ i < j
               /\ tasks[i].position = tasks[j].position
               /\ \E f \in tasks[i].keys : tasks[j].destination[f] # Undef)
              => /\ tasks[i].keys \cap tasks[j].keys = {}
                 /\ \A k \in {i, j} :
                       (/\ tasks'[k].start >= 0
                        /\ now' - tasks'[k].start >= tasks[k].duration)
                       => /\ tasks'[k].resolved
                          /\ \A g \in tasks[k].keys :
                                data'[tasks[k].position][g] = tasks[k].destination[g]]_vars

\* C7: cancelAll() leaves both lists empty and, for every task it found,
\* the promise resolved, the keys released and the canonical value of each
\* key at its destination.
C7_CancelAllForcesDestination ==
    [][ev'.op = "cancelAll"
        => /\ activeList' = <<>>
           /\ newList' = <<>>
           /\ \A i \in Range(ev'.ids) :
                 /\ tasks'[i].resolved
                 /\ tasks[i].keys \cap animKeys'[tasks[i].position] = {}
                 /\ \A f \in tasks[i].keys :
                       data'[tasks[i].position][f] = tasks[i].destination[f]]_vars

\* C11: on a store as constructed with { left: 100, top: 50, width: 200,
\* height: 100 }, set({ left: 150 }) leaves left = 150 and every other
\* canonical field as it was, and sets the change-set bit of left and no
\* other, with or without a connected element.
C11_PartialSetTouchesOnlyItsKeys ==
    [][(/\ ev'.op = "set"
        /\ ev'.p = [NoPos EXCEPT !.left = I(150)]
        /\ data[ev'.s] = Construct(PlacedOptions))
        => /\ data'[ev'.s] = [Construct(PlacedOptions) EXCEPT !.left = I(150)]
           /\ ev'.bits = {"left"}]_vars

\* C11 without an element: the same call on a store whose element is not
\* connected.
C11_PartialSetWithoutElement ==
    [][(/\ ev'.op = "set"
        /\ ev'.p = [NoPos EXCEPT !.left = I(150)]
        /\ ~connected[ev'.s]
        /\ data[ev'.s] = Construct(PlacedOptions))
        => /\ data'[ev'.s] = [Construct(PlacedOptions) EXCEPT !.left = I(150)]
           /\ ev'.bits = {"left"}]_vars

\* Canonical scale is null or a number of [0, 1000].
ScaleInRange(x) == x = Null \/ (IsFinite(x) /\ x.v >= 0 /\ x.v <= 2 * 1000)

\* C12: in every state reached through the constructor, set(), animateTo()
\* frames, reset() and restore() with finite, null and 'auto' inputs, scale
\* is null or within [0, 1000], left, top and zIndex are integers or null,
\* and width and height are integers, null or 'auto'.
C12_CanonicalValuesNormalised ==
    \A s \in Stores :
        /\ ScaleInRange(data[s].scale)
        /\ \A f \in {"left", "top", "zIndex"} :
              data[s][f] = Null \/ IsInteger(data[s][f])
        /\ \A f \in {"width", "height"} :
              data[s][f] \in {Null, Auto} \/ IsInteger(data[s][f])

\* C13: no canonical field of any store is NaN or undefined, whatever was
\* passed to set() or restore().
C13_NoNaNInCanonicalState ==
    \A s \in Stores : \A f \in Fields : data[s][f].k \notin {"NaN", "undefined"}

\* C14: a restore({ name }) that is neither silent nor animated, of a
\* snapshot saved before any number of set() calls, leaves every canonical
\* field at the value the snapshot holds for it, null included (save()
\* stores every field, so no field is outside the snapshot).
C14_RestoreReturnsToSnapshot ==
    [][(/\ ev'.op = "restore"
        /\ ev'.args = {}
        /\ dataSaved[ev'.s][ev'.name] # NoSnapshot)
        => \A f \in Fields :
              data'[ev'.s][f] = dataSaved[ev'.s][ev'.name][f]]_vars

\* C15: restore(), getSave() and remove() of a name without snapshot return
\* undefined and leave the canonical data, the snapshots and the animating
\* keys as they were.
C15_UnknownNameIsUndefined ==
    [][(/\ ev'.op \in {"restore", "getSave", "remove"}
        /\ dataSaved[ev'.s][ev'.name] = NoSnapshot)
        => /\ ev'.ret = "undefined"
           /\ data' = data
           /\ dataSaved' = dataSaved
           /\ animKeys' = animKeys]_vars

\* C15 witness: a restore() of a name without snapshot, on a store that
\* holds a snapshot of another name which differs from its canonical data.
C15_Witness ==
    /\ ev.op = "restore"
    /\ ev.ret = "undefined"
    /\ ev.args = {}
    /\ dataSaved[ev.s][ev.name] = NoSnapshot
    /\ \E n \in Names : dataSaved[ev.s][n] \notin {NoSnapshot, data[ev.s]}

\* C16: reset() on a store that has no default data yet, or that has a key
\* under animation, returns false, leaves the canonical data and the change
\* set as they were, and neither resets the transforms nor maximizes the
\* parent.
C16_ResetRefused ==
    [][(/\ ev'.op = "reset"
        /\ (defaultData[ev'.s] = NoSnapshot \/ animKeys[ev'.s] # {}))
        => /\ ev'.ret = "false"
           /\ data' = data
           /\ changeSet' = changeSet
           /\ uemList' = uemList
           /\ ev'.args \cap {"transforms.reset", "maximize"} = {}]_vars

\* C16 witness: a reset() refused for a key under animation, on a
\* positionable store with default data that differ from its canonical data.
C16_Witness ==
    /\ ev.op = "reset"
    /\ ev.ret = "false"
    /\ "invokeSet" \in ev.args
    /\ positionable[ev.s]
    /\ animKeys[ev.s] # {}
    /\ defaultData[ev.s] \notin {NoSnapshot, data[ev.s]}

\* C18: while options.positionable of the parent is false, set() and
\* animateTo() return normally and leave the canonical data, the change set,
\* the animating keys, the registrations of the update manager, the
\* elementUpdated promise and the animation lists as they were, and notify no
\* subscriber.
C18_NotPositionableIsNoOp ==
    [][(ev'.op \in {"set", "animateTo"} /\ ~positionable[ev'.s])
        => /\ ev'.ret = "returns"
           /\ ev'.notified = {}
           /\ data' = data
           /\ changeSet' = changeSet
           /\ animKeys' = animKeys
           /\ uemList' = uemList
           /\ elementUpdated' = elementUpdated
           /\ tasks' = tasks
           /\ newList' = newList
           /\ activeList' = activeList]_vars

\* C18 witness: a set() that would have changed a field of a connected
\* store, and was made while the store was not positionable.
C18_Witness ==
    /\ ev.op = "set"
    /\ ~positionable[ev.s]
    /\ connected[ev.s]
    /\ SetChanged(data[ev.s], ev.p) # {}
    /\ animKeys[ev.s] = {}

\* C17: a call with a malformed argument throws at the call site, returns
\* no rejected promise, and leaves the state of the store as it was.
C17_MalformedArgumentsThrow ==
    [][("malformed" \in ev'.args)
        => /\ ev'.ret = "throws"
           /\ UNCHANGED <<data, changeSet, animKeys, dataSaved, defaultData,
                          uemList, elementUpdated, tasks, newList, activeList>>]_vars

\* C17 for the methods that are not async: set, save, restore, getSave and
\* remove throw at the call site.
C17_SyncMethodsThrow ==
    [][("malformed" \in ev'.args /\ ev'.op # "animateTo")
        => /\ ev'.ret = "throws"
           /\ UNCHANGED <<data, changeSet, animKeys, dataSaved, defaultData,
                          uemList, elementUpdated, tasks, newList, activeList>>]_vars

\* The inline style that stands for a canonical value: null clears it.
StyleOf(x) == IF x = Null THEN Empty ELSE x

\* C19: at a frame tick the callback of a connected element writes the
\* style of a field when the change-set bit of the field is set (zIndex,
\* width, height; the transform for left, top and the transform keys), and
\* leaves the style of every other field as it was; for an element that is
\* not connected, or has no callback registered, no style is written and no
\* subscriber is notified.
C19_StylesFollowChangeSet ==
    [][ev'.op = "frame"
        => \A s \in Stores :
              LET cs == changeSet[s]
                  old == elStyle[s]
                  new == elStyle'[s]
              IN  IF Count(uemList, s) > 0 /\ connected[s]
                  THEN /\ \A b \in {"zIndex", "width", "height"} :
                             new[b] = IF b \in cs THEN StyleOf(data[s][b]) ELSE old[b]
                       /\ new.transform = IF cs \cap {"left", "top", "transform"} # {}
                                          THEN getCSSOrtho(data[s]) ELSE old.transform
                       /\ new.left = old.left
                       /\ new.top = old.top
                  ELSE new = old /\ s \notin ev'.notified]_vars

\* C19 witness: a frame ran the callback of a connected element whose
\* zIndex bit was clear while the canonical zIndex and the style differed,
\* and the style is as it was.
C19_Witness ==
    /\ ev.op = "frame"
    /\ \E s \in Stores :
          /\ Count(ev.cbs, s) > 0
          /\ connected[s]
          /\ elStyle[s].transform # <<>>
          /\ elStyle[s].zIndex # StyleOf(data[s].zIndex)

\* C20: after a frame tick that falls after the start frame and before the
\* terminal frame of an animation of left from 0 to 300, the canonical left
\* lies strictly between 0 and 300.
C20_EasedValueStrictlyBetween ==
    [][ev'.op = "frame"
        => \A i \in Unresolved :
              (/\ "left" \in tasks[i].keys
               /\ tasks[i].start >= 0
               /\ now' - tasks[i].start < tasks[i].duration)
              => /\ tasks[i].initial.left.v < data'[tasks[i].position].left.v
                 /\ data'[tasks[i].position].left.v < tasks[i].destination.left.v]_vars

\* C21: set(), animateTo(), reset(), save() and restore() on one store leave
\* the canonical data, the ChangeSet, the snapshots and the animating keys of
\* every other store as they were; and a frame tick changes the canonical
\* data, the snapshots and the animating keys of no store, and the ChangeSet
\* only of a store whose own DOM-sync callback it ran.
OwnOps == {"set", "animateTo", "reset", "save", "restore"}

SameStore(t) ==
    /\ data'[t] = data[t]
    /\ changeSet'[t] = changeSet[t]
    /\ dataSaved'[t] = dataSaved[t]
    /\ animKeys'[t] = animKeys[t]

C21_StoresAreIndependent ==
    [][/\ ev'.op \in OwnOps => \A t \in Stores \ {ev'.s} : SameStore(t)
       /\ ev'.op = "frame" =>
             \A t \in Stores : Count(ev'.cbs, t) = 0 \/ ~connected[t] => SameStore(t)]_vars

\* Both stores have moved, hold a snapshot and a pending change, and one of
\* them is animating while the other is not.
C21_Witness ==
    /\ ev.op \in OwnOps
    /\ data["s1"] # data["s2"]
    /\ animKeys["s1"] # {} /\ animKeys["s2"] = {}
    /\ dataSaved["s2"]["a"] # NoSnapshot
    /\ changeSet["s2"] # {}
    /\ Len(tasks) > 0 /\ now > 0

\* C22: at all times the filters are held in non-decreasing order of the
\* weight they were added with (a filter added without a weight counts 1),
\* and a filter added without a weight is stored with weight 1 as the last
\* filter.
AddedWeight(d) == IF d.given = Undef THEN 2 ELSE d.given.v

C22_FiltersOrderedByWeight ==
    /\ \A i, j \in 1..Len(filters) : i < j => AddedWeight(filters[i]) <= AddedWeight(filters[j])
    /\ ev.op = "filters.add" /\ ev.ret = "returns" /\ "noWeight" \in ev.args =>
          /\ filters[Len(filters)].filter = ev.name
          /\ filters[Len(filters)].weight = I(1)

\* C23: a handled pointerdown sets the is-dragging flag, a pointerup,
\* update({ active: false }) and destroy() leave it false; setPosition is
\* called only for a pointermove between a pointerdown and the following
\* pointerup, with left / top the position at the pointerdown plus the way
\* of the pointer since; and a pointermove less than 1000 / 60 ms after the
\* last accepted one calls nothing.
Released == {"pointerup", "drag.destroy"}

SetOps == {"wrapper.new", "wrapper.set"}

C24_WrappersFollowTheStoreContract ==
    [][/\ ev'.op \in SetOps /\ ev'.ret = "returns" =>
             /\ wrapped'[ev'.s].value = ev'.name
             /\ ev'.ids = <<ev'.name>>
             /\ \A h \in Range(subscriptions[ev'.s]) : Count(ev'.cbs, h) = 1
       /\ ev'.op = "wrapper.subscribe" =>
             /\ ev'.cbs = <<ev'.name>>
             /\ ev'.ids = <<wrapped[ev'.s].value>>
       /\ ev'.op \in SetOps \cup {"wrapper.deleted"} =>
             Range(ev'.cbs) \subseteq Range(subscriptions[ev'.s])
       /\ ev'.op = "wrapper.unsubscribe" =>
             ev'.name \notin Range(subscriptions'[ev'.s])]_vars

\* C25: while a task is in the pending or the active list an animate loop
\* is waiting for the next frame to process it, and once s_PROMISE is
\* cleared both lists are empty.
C25_LoopRunsWhileTasksListed ==
    /\ Listed # {} => animPromise = "awaitFrame"
    /\ animPromise = "none" => Listed = {}

\* C26: no task is in both lists; a frame tick promotes every pending task
\* to the active list with start = the time of that frame; a task whose
\* promise is resolved is not touched again; and a task that leaves the
\* lists has its promise resolved.
C26_TaskLifecycle ==
    [][/\ Range(newList') \cap Range(activeList') = {}
       /\ ev'.op = "frame" =>
             \A i \in Range(newList) :
                 i \in Range(activeList') /\ tasks'[i].start = now'
       /\ \A i \in 1..Len(tasks) : tasks[i].resolved => tasks'[i] = tasks[i]
       /\ \A i \in Listed :
             i \notin Range(newList') \cup Range(activeList') => tasks'[i].resolved]_vars

\* C27: a set() on a store without connected element that changes a field
\* invokes the subscribers inside the call and registers nothing with the
\* update manager; a set() on a store with a connected element invokes no
\* subscriber inside the call and leaves one registration of the element,
\* and the frame tick invokes the subscribers of every registered store
\* that is still connected and has a change to show.
C27_SetNotifiesInlineOrDefers ==
    [][/\ ev'.op = "set" /\ ~connected[ev'.s] =>
             /\ ev'.bits # {} => ev'.notified = {ev'.s}
             /\ uemList' = uemList
             /\ elementUpdated' = elementUpdated
       /\ ev'.op = "set" /\ connected[ev'.s] =>
             /\ ev'.notified = {}
             /\ ~ev'.vetoed => Count(uemList', ev'.s) = 1
       /\ ev'.op = "frame" =>
             \A s \in Stores :
                 Count(uemList, s) > 0 /\ connected[s] /\ changeSet[s] # {}
                 => s \in ev'.notified]_vars

\* A frame tick invoked the subscribers of a store for two set() calls made
\* on its connected element.
C27_Witness ==
    /\ ev.op = "frame"
    /\ ev.notified = {"s1"}
    /\ ev.calls["s1"] = 2
    /\ data["s1"].left = I(150)
    /\ data["s1"].top # Construct(PlacedOptions).top

\* The bit b of the store s is raised by this step.
Raised(s, b) == b \in changeSet'[s] /\ b \notin changeSet[s]

\* This step is a call on the store s that assigns a field of the bit b a
\* value that differs (!==) from the one it had.
ChangedBy(s, b) ==
    /\ ev'.s = s
    /\ \E f \in Fields : BitOf(f) = b /\ StrictNe(data[s][f], data'[s][f])

\* The change set of every store whose DOM-sync callback or subscribers
\* this step ran is empty after it.
ClearedWhenShown ==
    /\ ev'.op = "frame" =>
          \A s \in Range(ev'.cbs) : connected[s] => changeSet'[s] = {}
    /\ \A s \in ev'.notified : changeSet'[s] = {}

RestoredKeys(args) == IF "properties" \in args THEN {"left"} ELSE Fields

C30_ResetReturnsToDefault ==
    [][(/\ ev'.op = "reset"
        /\ "invokeSet" \in ev'.args
        /\ defaultData[ev'.s] # NoSnapshot
        /\ animKeys[ev'.s] = {}
        /\ positionable[ev'.s])
        => /\ ev'.ret = "true"
           /\ \A f \in Fields :
                 data'[ev'.s][f] = IF f = "zIndex" /\ "keepZIndex" \in ev'.args
                                   THEN data[ev'.s][f] ELSE defaultData[ev'.s][f]]_vars

\* ------------------------------------------------------------------------
\* C31
\* ------------------------------------------------------------------------

\* The operations of a store that run set() on it.
RunsSet == {"set", "restore", "reset", "parent"}

\* C31: the default data of a store is captured by the first set() that
\* runs against a connected target element and is not vetoed, as a copy of
\* the canonical data the call leaves; once captured, no set(), frame,
\* restore() or reset() changes it, and only the assignment of a new parent
\* discards it.
C31_DefaultDataCapturedOnce ==
    [][\A s \in Stores :
         /\ (defaultData[s] # NoSnapshot /\ defaultData'[s] # defaultData[s])
               => (ev'.op = "parent" /\ ev'.s = s)
         /\ (defaultData'[s] # NoSnapshot
              /\ (defaultData[s] = NoSnapshot \/ (ev'.op = "parent" /\ ev'.s = s)))
               => /\ ev'.op \in RunsSet /\ ev'.s = s
                  /\ connected'[s] /\ ~ev'.vetoed
                  /\ defaultData'[s] = data'[s]
         /\ (ev'.op \in {"set", "parent"} /\ ev'.s = s /\ connected'[s]
              /\ positionable[s] /\ ~ev'.vetoed)
               => defaultData'[s] = (IF defaultData[s] = NoSnapshot \/ ev'.op = "parent"
                                     THEN data'[s] ELSE defaultData[s])
         /\ (ev'.op = "parent" /\ ev'.s = s
              /\ (~connected'[s] \/ ~positionable[s] \/ ev'.vetoed))
               => defaultData'[s] = NoSnapshot]_vars

\* The default data were captured, canonical state moved on, and a vetoed
\* set() has just left both alone.
C31_Witness ==
    /\ defaultData["s1"] # NoSnapshot
    /\ defaultData["s1"] # data["s1"]
    /\ ev.op = "set" /\ ev.vetoed
    /\ connected["s1"]

\* ------------------------------------------------------------------------
\* C32
\* ------------------------------------------------------------------------

\* 0 for a null rotation, 1 for a null scale, the value itself otherwise
NullReplaced(f, x) ==
    IF x # Null THEN x
    ELSE IF f = "scale" THEN I(1) ELSE IF f = "rotateZ" THEN I(0) ELSE x

\* C32: animateTo() records an (initial, destination) pair only for fields
\* of the target whose canonical value is defined and differs from the
\* target; a null initial or destination is replaced by 0 (rotation) or 1
\* (scale), and both values of every recorded pair are numeric.
C32_AnimatedPairsAreNumeric ==
    [][(ev'.op = "animateTo" /\ ev'.ids # <<>>)
         => LET t == tasks'[ev'.ids[1]]
                s == ev'.s
                p == ev'.p
            IN  /\ t.keys \subseteq {f \in KeysOf(p) :
                                        data[s][f] # Undef /\ StrictNe(p[f], data[s][f])}
                /\ \A f \in t.keys :
                      /\ t.initial[f] = NullReplaced(f, data[s][f])
                      /\ t.destination[f] = NullReplaced(f, p[f])
                      /\ IsFinite(t.initial[f])
                      /\ IsFinite(t.destination[f])]_vars

\* ------------------------------------------------------------------------
\* C33
\* ------------------------------------------------------------------------

\* The fields of the target p that survive the filtering of animateTo().
Survivors(s, p) ==
    {f \in KeysOf(p) : /\ data[s][f] # Undef
                       /\ StrictNe(p[f], data[s][f])
                       /\ IsFinite(NullReplaced(f, data[s][f]))
                       /\ f \notin animKeys[s]}

\* C33: an animateTo() none of whose fields survives the filtering returns
\* at once: it creates no animation task, starts no animate loop and
\* leaves the animating keys and canonical state unchanged.
C33_NothingToAnimateIsNoOp ==
    [][(ev'.op = "animateTo" /\ Survivors(ev'.s, ev'.p) = {})
         => /\ ev'.ret = "returns" /\ ev'.ids = <<>>
            /\ UNCHANGED <<tasks, newList, activeList, animPromise, animKeys>>
            /\ UNCHANGED <<data, changeSet, elStyle, uemList, elementUpdated>>]_vars

\* An animation of the height of an 'auto' window was asked for while
\* another task animates: nothing was added.
C33_Witness ==
    /\ ev.op = "animateTo" /\ ev.ids = <<>>
    /\ ev.p.height = I(5)
    /\ animKeys["s1"] # {}
    /\ Len(tasks) = 1

\* ------------------------------------------------------------------------
\* C34
\* ------------------------------------------------------------------------

\* The position handed to the i-th validator of the pipeline vs when each
\* validator is fed the output of the one before, from the proposed
\* position on.
RECURSIVE FedTo(_, _, _)
FedTo(vs, proposed, i) ==
    IF i = 1 THEN proposed ELSE ApplyValidator(vs[i - 1], FedTo(vs, proposed, i - 1)).pos

\* C34: a set() on a connected element invokes the validators in the order
\* of the pipeline (ascending weight), the first on the proposed position
\* and each further one on the output of the one before; the pipeline stops
\* at the first validator that returns null, and canonical state is
\* updated from the output of the last validator.
C34_ValidatorsRunAsPipeline ==
    [][(ev'.op = "set" /\ connected[ev'.s] /\ positionable[ev'.s])
         => LET s == ev'.s
                vs == validators[s]
                n == Len(ev'.validated)
                proposed == ProposedPosition(s, ev'.p)
                Output(i) == ApplyValidator(vs[i], FedTo(vs, proposed, i))
            IN  /\ n <= Len(vs) /\ (vs # <<>> => n >= 1)
                /\ \A i \in 1..n : ev'.validated[i] = vs[i]
                /\ \A i \in 1..(n - 1) : Output(i).ok
                /\ n < Len(vs) => ~Output(n).ok
                /\ IF n >= 1 /\ ~Output(n).ok
                   THEN ev'.vetoed /\ data'[s] = data[s]
                   ELSE /\ ~ev'.vetoed
                        /\ data'[s] = SetData(data[s], IF n = 0 THEN proposed
                                                       ELSE Output(n).pos)]_vars

\* The clamp ran before the veto of a negative left: the veto saw 0, and
\* canonical state took the clamped position.
C34_Witness ==
    /\ ev.op = "set" /\ ev.p.left = I(-1) /\ ~ev.vetoed
    /\ ev.validated = <<"clampLeft", "vetoNegLeft">>
    /\ data["s1"].left = I(0) /\ data["s1"].zIndex = I(1)

\* ------------------------------------------------------------------------
\* C35
\* ------------------------------------------------------------------------

\* C35: a derived store (dimension, transform) is recomputed and published
\* only while it has a subscriber or, for transform, while the option
\* calculateTransform is on: with no subscriber and the option off, no
\* operation publishes to it.
C35_DerivedStoresNeedSubscribers ==
    [][\A pub \in ev'.published :
          \/ derived[pub.s][pub.to] > 0
          \/ (pub.to = "transform" /\ derived[pub.s].calculateTransform)]_vars

\* The stores whose subscribers an operation notified of a change of
\* width or height.
SizeNotified ==
    {s \in ev'.notified :
        (changeSet[s] \cup (IF ev'.s = s THEN ev'.bits ELSE {})) \cap {"width", "height"} # {}}

\* C35, amended: stores.transform is recomputed and published at the update
\* of a connected element exactly while it has a subscriber or the option
\* calculateTransform is on; stores.dimension is recomputed and set
\* whenever the subscribers of the store are notified of a change of width
\* or height, with or without subscribers of its own.
C35_TransformNeedsSubscribers ==
    [][\A s \in Stores :
          /\ [s |-> s, to |-> "transform"] \in ev'.published
                <=> /\ ev'.op = "frame"
                    /\ \E i \in 1..Len(ev'.cbs) : ev'.cbs[i] = s
                    /\ connected[s]
                    /\ (derived[s].transform > 0 \/ derived[s].calculateTransform)
          /\ [s |-> s, to |-> "dimension"] \in ev'.published <=> s \in SizeNotified]_vars

\* A frame updated the element of a store without calculateTransform whose
\* derived stores have no subscriber: dimension was set, transform was not.
C35_Witness ==
    /\ ev.op = "frame" /\ ev.cbs = <<"s1">>
    /\ ~derived["s1"].calculateTransform
    /\ derived["s1"].transform = 0 /\ derived["s1"].dimension = 0
    /\ ev.published = {[s |-> "s1", to |-> "dimension"]}

\* ------------------------------------------------------------------------
\* C36
\* ------------------------------------------------------------------------

\* C36: in every reachable state the rotation and scale values of the
\* transforms helper of a store equal the canonical values of the same
\* fields.
C36_TransformsMirrorCanonicalState ==
    \A s \in Stores : \A f \in TransformKeys : transforms[s][f] = data[s][f]

\* ------------------------------------------------------------------------
\* C37
\* ------------------------------------------------------------------------

\* The menus that were created and not handed to outroAndDestroy
MenusAlive == (1..menu.created) \ menu.handed

\* C37: whenever a createContext() call has completed, every menu created
\* before has been handed to outroAndDestroy: the tracked menu is the only
\* menu alive.
C37_OneMenuAlive ==
    (ev.op = "createContext" /\ ev.ret = "returns") => MenusAlive = {menu.tracked}

\* ------------------------------------------------------------------------
\* C38
\* ------------------------------------------------------------------------

\* The #updateElement calls of the older store that wait for a frame
OldUpdatesPending == Cardinality({i \in 1..Len(older.raf) : older.raf[i] = "update"})

\* C38: in the older Position at most one #updateElement waits for a frame
\* at any time, every promise of elementUpdated is eventually resolved,
\* and every animateTo() ends and removes its keys from the animating
\* keys, with or without target element and validator veto.
C38_OldAnimateToTerminates ==
    /\ [](OldUpdatesPending <= 1)
    /\ (older.promises # {}) ~> (older.promises = {})
    /\ (older.animKeys # {}) ~> (older.animKeys = {})

\* ------------------------------------------------------------------------
\* C39
\* ------------------------------------------------------------------------

\* The host document whose `apps` holds the uuid key of the TJSDocument
\* is the document that get() returns, and no document when get() returns
\* undefined.
RegisteredWhereWrapped(d) == d.made => d.linked = d.value

\* C39: the uuid key of a TJSDocument is in the apps of exactly the document
\* that get() returns, in every state; a set() that throws for null or for
\* an invalid document leaves the wrapped document, its registration and
\* what the subscribers saw last as they were.
C39_DocumentRegistration ==
    [][/\ RegisteredWhereWrapped(wrapped'[SrcDocument])
       /\ (ev'.op = "wrapper.set" /\ ev'.s = SrcDocument /\ ev'.ret = "throws")
              => /\ wrapped'[SrcDocument] = wrapped[SrcDocument]
                 /\ ev'.cbs = <<>>
                 /\ subscriptions' = subscriptions]_vars

====
